---- MODULE Spec2Model ----
(***************************************************************************)
(* PSI 05-15 rules engine (src/PSI_05_15.py).                              *)
(*                                                                         *)
(* The engine is a batch driver around one evaluator,                      *)
(* evaluate_psi_comprehensive(row, psi_name, code_sets, organ_systems,     *)
(* debug_mode, validate_timing).  The state is the batch driver's: the     *)
(* input frame, the selected PSIs, the loop position, the tallies and      *)
(* the result records appended so far.                                     *)
(*                                                                         *)
(* Representation.                                                         *)
(*   - a Python str is a sequence of one-character strings;                *)
(*   - a text cell of the input frame is such a sequence, or NoneS (the    *)
(*     column is absent: row.get gives None) or NaNS (the cell is blank:   *)
(*     pandas gives NaN);                                                  *)
(*   - a numeric cell is a record [tag, n], tag in {"None","NaN","int"};   *)
(*   - an optional value (a parsed timestamp, an unbound local) is <<>>    *)
(*     or <<v>>;                                                           *)
(*   - a timestamp is a number of minutes, MinutesPerDay to the day.       *)
(* Date and time cells of the modelled inputs are blank or well formed:    *)
(* pandas' NaT (an unparseable date) is outside the modelled inputs.       *)
(***************************************************************************)
EXTENDS Integers, Sequences, FiniteSets, TLC

VARIABLES df_input, selected_psis, validate_timing,
          psi_i, idx, inclusions, exclusions, detailed_results,
          all_psi_results, pc

vars == <<df_input, selected_psis, validate_timing, psi_i, idx, inclusions,
          exclusions, detailed_results, all_psi_results, pc>>

-----------------------------------------------------------------------------
(* Bounds of the model *)

\* diagnosis columns DX1..DX<MaxDx> (the code reads 30)
MaxDx == 3
\* procedure columns Proc1..Proc<MaxProc> (the code reads 20)
MaxProc == 5
\* how many cells of the baseline encounter an input row overrides
MaxEdits == 2
\* rows of a batch frame
BatchLen == 3

-----------------------------------------------------------------------------
(* Python / pandas values *)

NoneS == <<"#None">>
NaNS == <<"#NaN">>
NoneN == [tag |-> "None", n |-> 0]
NaNN == [tag |-> "NaN", n |-> 0]
Int_(v) == [tag |-> "int", n |-> v]
S1(a) == <<a>>
S2(a, b) == <<a, b>>
S3(a, b, c) == <<a, b, c>>

\* pd.isna on a text cell and on a numeric cell
isnaS(v) == v = NoneS \/ v = NaNS
isnaN(v) == v.tag \in {"None", "NaN"}
\* a date cell holding a text that is no date, and the pd.NaT it parses to
TextN == [tag |-> "text", n |-> 0]
NaT == "#NaT"

MinutesPerDay == 24 * 60

RECURSIVE SeqFilterOut(_, _)
SeqFilterOut(s, ch) ==
    IF s = <<>> THEN <<>>
    ELSE IF Head(s) = ch THEN SeqFilterOut(Tail(s), ch)
         ELSE <<Head(s)>> \o SeqFilterOut(Tail(s), ch)

\* str.replace(".", "")
replace_dot(s) == SeqFilterOut(s, ".")

LowerChars == <<"a","b","c","d","e","f","g","h","i","j","k","l","m",
                "n","o","p","q","r","s","t","u","v","w","x","y","z">>
UpperChars == <<"A","B","C","D","E","F","G","H","I","J","K","L","M",
                "N","O","P","Q","R","S","T","U","V","W","X","Y","Z">>

upper_char(c) ==
    IF \E i \in 1..Len(LowerChars) : LowerChars[i] = c
    THEN UpperChars[CHOOSE i \in 1..Len(LowerChars) : LowerChars[i] = c]
    ELSE c

\* str.upper()
upper(s) == [i \in 1..Len(s) |-> upper_char(s[i])]

is_space(c) == c = " "

RECURSIVE lstrip(_)
lstrip(s) ==
    IF s # <<>> /\ is_space(Head(s)) THEN lstrip(Tail(s)) ELSE s

RECURSIVE rstrip(_)
rstrip(s) ==
    IF s # <<>> /\ is_space(s[Len(s)]) THEN rstrip(SubSeq(s, 1, Len(s) - 1)) ELSE s

\* str.strip()
strip(s) == rstrip(lstrip(s))

\* str(v) of a text cell: str(None) = "None", str(nan) = "nan"
str_(v) ==
    IF v = NoneS THEN <<"N","o","n","e">>
    ELSE IF v = NaNS THEN <<"n","a","n">>
    ELSE v

DigitChars == <<"0","1","2","3","4","5","6","7","8","9">>

RECURSIVE str_nat(_)
str_nat(n) ==
    IF n < 10 THEN <<DigitChars[n + 1]>>
    ELSE str_nat(n \div 10) \o <<DigitChars[(n % 10) + 1]>>

\* str(v) of a numeric cell holding a non-negative integer
str_num(v) ==
    IF v.tag = "None" THEN <<"N","o","n","e">>
    ELSE IF v.tag = "NaN" THEN <<"n","a","n">>
    ELSE str_nat(v.n)

\* The "truthiness" Python's `or` tests: None and "" are falsy, NaN and any
\* non-empty string are truthy; among numbers only 0 is falsy.
truthyS(v) == v # NoneS /\ v # <<>>
truthyN(v) == v.tag = "NaN" \/ (v.tag = "int" /\ v.n # 0)
orS(a, b) == IF truthyS(a) THEN a ELSE b
orN(a, b) == IF truthyN(a) THEN a ELSE b
\* a date cell is falsy only when the column is absent (None)
orD(a, b) == IF a.tag # "None" THEN a ELSE b

\* `pd.isna(v) or str(v).strip() == ""` on a text cell and on a numeric cell
blankS(v) == isnaS(v) \/ strip(str_(v)) = <<>>
blankN(v) == isnaN(v)

-----------------------------------------------------------------------------
(* The appendix after code-set extraction.  One short code stands for each *)
(* code list; the lists overlap where the AHRQ lists do (a hip fracture is *)
(* a fracture, a tracheostomy or a vena cava filter may be an OR           *)
(* procedure, postprocedural respiratory failure is a respiratory          *)
(* failure).  Codes are stored uppercased and without periods.             *)

dxI10 == S3("I","1","0")
dxO80 == S3("O","8","0")
dxP07 == S3("P","0","7")
dxT81 == S3("T","8","1")
dxJ93 == S3("J","9","3")
dxS27 == S3("S","2","7")
dxJ90 == S3("J","9","0")
dxJ95 == S3("J","9","5")
dxT80 == S3("T","8","0")
dxC34 == S3("C","3","4")
dxD80 == S3("D","8","0")
dxS52 == S3("S","5","2")
dxS72 == S3("S","7","2")
dxM97 == S3("M","9","7")
dxD78 == S3("D","7","8")
dxD68 == S3("D","6","8")
dxD69 == S3("D","6","9")
dxN17 == S3("N","1","7")
dxI46 == S3("I","4","6")
dxI47 == S3("I","4","7")
dxR57 == S3("R","5","7")
dxN18 == S3("N","1","8")
dxN13 == S3("N","1","3")
dxZ90 == S3("Z","9","0")
dxJ96 == S3("J","9","6")
dxJ9P == S3("J","9","P")
dxZ93 == S3("Z","9","3")
dxT88 == S3("T","8","8")
dxG70 == S3("G","7","0")
dxG30 == S3("G","3","0")
dxI82 == S3("I","8","2")
dxI26 == S3("I","2","6")
dxD75 == S3("D","7","5")
dxS06 == S3("S","0","6")
dxA41 == S3("A","4","1")
dxA49 == S3("A","4","9")
dxB20 == S3("B","2","0")
dxZ94 == S3("Z","9","4")
dxC91 == S3("C","9","1")
dxT89 == S3("T","8","9")
dxK91 == S3("K","9","1")
dxE36 == S3("E","3","6")
dxI97 == S3("I","9","7")
dxJ98 == S3("J","9","8")
dxK92 == S3("K","9","2")
dxN99 == S3("N","9","9")

prOR1 == S3("0","D","T")
prOR2 == S3("0","S","R")
prTHO == S3("0","B","T")
prCAR == S3("0","2","Q")
prIMM == S3("3","0","2")
prHEM == S3("0","W","3")
prHEO == S3("0","6","Q")
prTLY == S3("3","E","0")
prDIA == S3("5","A","1")
prDI2 == S3("0","5","H")
prNEP == S3("0","T","T")
prTRA == S3("0","B","1")
prTRO == S3("0","B","W")
prNUC == S3("0","N","B")
prESO == S3("0","D","5")
prLUC == S3("0","B","K")
prLUT == S3("0","B","Y")
pr972 == S3("9","7","2")
pr971 == S3("9","7","1")
pr904 == S3("9","0","4")
prVEN == S3("0","6","H")
prVEO == S3("0","6","V")
prTHR == S3("0","3","C")
prECM == S3("5","A","5")
prCHE == S3("3","E","3")
prRAD == S3("D","0","0")
prABO == S3("0","D","B")
prABX == S3("0","D","J")
prREC == S3("0","W","Q")
prA15 == S3("0","F","T")
prSPL == S3("0","7","P")
prADR == S3("0","G","2")
prVES == S3("0","4","Q")
prDPH == S3("0","B","R")
prGI == S3("0","D","Q")
prGU == S3("0","T","Q")

\* the DRG the grouper gives an ungroupable discharge
drgUngroupable == 999
\* the modelled appendix lists one surgical and one medical MS-DRG
drgSurgical == str_nat(470)
drgMedical == str_nat(291)

\* a cell of the appendix with surrounding blanks, lower case and a period
cellT82 == <<" ", "t", "8", ".", "2", " ">>

\* appendix_df: the cells of each appendix column, under the name of its
\* code set; the FOREIID column also holds a padded cell, an empty cell and
\* an empty string
appendix_df ==
    [ MDC14PRINDX_CODES |-> {dxO80},
      MDC15PRINDX_CODES |-> {dxP07},
      SURGI2R_CODES |-> {drgSurgical},
      MEDIC2R_CODES |-> {drgMedical},
      FOREIID_CODES |-> {dxT81, cellT82, NaNS, <<>>},
      IATPTXD_CODES |-> {dxJ93},
      CTRAUMD_CODES |-> {dxS27},
      PLEURAD_CODES |-> {dxJ90},
      THORAIP_CODES |-> {prTHO},
      CARDSIP_CODES |-> {prCAR},
      IATROID_CODES |-> {dxJ95},
      IDTMC3D_CODES |-> {dxT80},
      CANCEID_CODES |-> {dxC34},
      IMMUNID_CODES |-> {dxD80},
      IMMUNIP_CODES |-> {prIMM},
      FXID_CODES |-> {dxS52, dxS72},
      HIPFXID_CODES |-> {dxS72},
      PROSFXID_CODES |-> {dxM97},
      ORPROC_CODES |-> {prOR1, prOR2, prHEO, prTRO, prVEO, prABO},
      POHMRI2D_CODES |-> {dxD78},
      HEMOTH2P_CODES |-> {prHEM, prHEO},
      COAGDID_CODES |-> {dxD68},
      MEDBLEEDD_CODES |-> {dxD69},
      THROMBOLYTICP_CODES |-> {prTLY},
      PHYSIDB_CODES |-> {dxN17},
      DIALYIP_CODES |-> {prDIA},
      DIALY2P_CODES |-> {prDI2},
      CARDIID_CODES |-> {dxI46},
      CARDRID_CODES |-> {dxI47},
      SHOCKID_CODES |-> {dxR57},
      CRENLFD_CODES |-> {dxN18},
      URINARYOBSID_CODES |-> {dxN13},
      SOLKIDD_CODES |-> {dxZ90},
      PNEPHREP_CODES |-> {prNEP},
      ACURF3D_CODES |-> {dxJ96, dxJ9P},
      ACURF2D_CODES |-> {dxJ9P},
      TRACHID_CODES |-> {dxZ93},
      TRACHIP_CODES |-> {prTRA, prTRO},
      MALHYPD_CODES |-> {dxT88},
      NEUROMD_CODES |-> {dxG70},
      DGNEUID_CODES |-> {dxG30},
      NUCRANP_CODES |-> {prNUC},
      PRESOPP_CODES |-> {prESO},
      LUNGCIP_CODES |-> {prLUC},
      LUNGTRANSP_CODES |-> {prLUT},
      PR9672P_CODES |-> {pr972},
      PR9671P_CODES |-> {pr971},
      PR9604P_CODES |-> {pr904},
      DEEPVIB_CODES |-> {dxI82},
      PULMOID_CODES |-> {dxI26},
      HITD_CODES |-> {dxD75},
      NEURTRAD_CODES |-> {dxS06},
      VENACIP_CODES |-> {prVEN, prVEO},
      THROMP_CODES |-> {prTHR},
      ECMOP_CODES |-> {prECM},
      SEPTI2D_CODES |-> {dxA41},
      INFECID_CODES |-> {dxA49},
      SEVEREIMMUNED_CODES |-> {dxB20},
      MODERATEIMMUNED_CODES |-> {dxZ94},
      MALIGNANCY_CODES |-> {dxC91},
      CHEMOTHERAPYP_CODES |-> {prCHE},
      RADIATIONP_CODES |-> {prRAD},
      ABDOMIPOPEN_CODES |-> {prABO},
      ABDOMIPOTHER_CODES |-> {prABX},
      RECLOIP_CODES |-> {prREC},
      ABWALLCD_CODES |-> {dxT89},
      ABDOMI15P_CODES |-> {prA15},
      SPLEEN15D_CODES |-> {dxK91},
      SPLEEN15P_CODES |-> {prSPL},
      ADRENAL15D_CODES |-> {dxE36},
      ADRENAL15P_CODES |-> {prADR},
      VESSEL15D_CODES |-> {dxI97},
      VESSEL15P_CODES |-> {prVES},
      DIAPHR15D_CODES |-> {dxJ98},
      DIAPHR15P_CODES |-> {prDPH},
      GI15D_CODES |-> {dxK92},
      GI15P_CODES |-> {prGI},
      GU15D_CODES |-> {dxN99},
      GU15P_CODES |-> {prGU} ]

\* the codes of one column: dropna(), astype(str), replace(".", ""), upper()
column_codes(cells) == {upper(replace_dot(c)) : c \in {c \in cells : c # NaNS}}

\* code_sets: code-set name -> the codes of that appendix column
code_sets == [name \in DOMAIN appendix_df |-> column_codes(appendix_df[name])]

\* code_sets.get(name, []): the entry of code_sets for name, computed for
\* that column alone
get_codes(name) ==
    IF name \in DOMAIN appendix_df THEN column_codes(appendix_df[name]) ELSE {}

\* class OrganSystem(Enum), in definition order
OrganSystem ==
    <<"spleen", "adrenal", "vessel", "diaphragm", "gastrointestinal", "genitourinary">>

build_organ_system_mapping ==
    [ spleen |-> [injury_codes |-> get_codes("SPLEEN15D_CODES"),
                  procedure_codes |-> get_codes("SPLEEN15P_CODES")],
      adrenal |-> [injury_codes |-> get_codes("ADRENAL15D_CODES"),
                   procedure_codes |-> get_codes("ADRENAL15P_CODES")],
      vessel |-> [injury_codes |-> get_codes("VESSEL15D_CODES"),
                  procedure_codes |-> get_codes("VESSEL15P_CODES")],
      diaphragm |-> [injury_codes |-> get_codes("DIAPHR15D_CODES"),
                     procedure_codes |-> get_codes("DIAPHR15P_CODES")],
      gastrointestinal |-> [injury_codes |-> get_codes("GI15D_CODES"),
                            procedure_codes |-> get_codes("GI15P_CODES")],
      genitourinary |-> [injury_codes |-> get_codes("GU15D_CODES"),
                         procedure_codes |-> get_codes("GU15P_CODES")] ]

organ_systems == build_organ_system_mapping

-----------------------------------------------------------------------------
(* The input frame.  A row holds the cells the engine reads.               *)

DxSlots == 1..MaxDx
SdxSlots == 1..(MaxDx - 1)
ProcSlots == 1..MaxProc

\* pd.to_datetime of a date cell: the day's midnight
date_to_dt(d) == d.n * MinutesPerDay

digit_of(c) == (CHOOSE i \in 1..10 : DigitChars[i] = c) - 1
two_digits(a, b) == 10 * digit_of(a) + digit_of(b)

\* The time normalisation of extract_proc_info_enhanced: HHMMSS and HHMM
\* are expanded to HH:MM:SS, anything else is passed on as it is.
expand_time(t) ==
    IF (\A i \in 1..Len(t) : t[i] # ":") /\ Len(t) = 6
    THEN <<t[1], t[2], ":", t[3], t[4], ":", t[5], t[6]>>
    ELSE IF (\A i \in 1..Len(t) : t[i] # ":") /\ Len(t) = 4
         THEN <<t[1], t[2], ":", t[3], t[4], ":", "0", "0">>
         ELSE t

\* pd.to_datetime("<date> HH:MM:SS"), to the minute
datetime_of(d, time_str) ==
    d.n * MinutesPerDay + 60 * two_digits(time_str[1], time_str[2])
        + two_digits(time_str[4], time_str[5])

\* dt.date(), and (a - b).days: both floor to whole days
date_(dt) == dt \div MinutesPerDay
\* the day count taken with the first day numbered 1
days_between_from_one(a, b) == (a - b) \div MinutesPerDay - 1

days_between(a, b) == (a - b) \div MinutesPerDay

\* parse_date_safe: None for a blank cell, else the timestamp
parse_date_safe(d) == IF isnaN(d) THEN <<>> ELSE <<date_to_dt(d)>>

\* the code cell trimmed and freed of periods, in the case it was written in
clean_code_as_written(v) == strip(replace_dot(str_(v)))

\* the clean form of a code cell: str(v).replace(".", "").upper().strip()
clean_code(v) == strip(upper(replace_dot(str_(v))))

\* the clean form of a POA cell; a value outside Y, N, U, W becomes ""
clean_poa(v) ==
    LET poa_clean == IF ~isnaS(v) THEN upper(strip(str_(v))) ELSE <<>>
    IN IF poa_clean \in {S1("Y"), S1("N"), S1("U"), S1("W"), <<>>}
       THEN poa_clean ELSE <<>>

RECURSIVE secondary_dx(_, _)
secondary_dx(row, i) ==
    IF i > MaxDx - 1 THEN <<>>
    ELSE LET std == row.DX[i + 1]
             use_alt == blankS(std)
             dx_val == IF use_alt THEN row.Sdx[i] ELSE std
             poa_val == IF use_alt THEN row.POA_Sdx[i] ELSE row.POA[i + 1]
         IN (IF ~blankS(dx_val)
             THEN << <<clean_code(dx_val), clean_poa(poa_val), "SECONDARY", i + 1>> >>
             ELSE <<>>) \o secondary_dx(row, i + 1)

extract_dx_codes_enhanced(row) ==
    LET dx1_val == IF blankS(row.DX[1]) THEN row.Pdx ELSE row.DX[1]
        poa1_val == row.POA[1]
    IN (IF ~blankS(dx1_val)
        THEN << <<clean_code(dx1_val), clean_poa(poa1_val), "PRINCIPAL", 1>> >>
        ELSE <<>>) \o secondary_dx(row, 1)

RECURSIVE proc_info(_, _)
proc_info(row, i) ==
    IF i > MaxProc THEN <<>>
    ELSE LET code == row.Proc[i]
             date == row.Proc_Date[i]
             time == row.Proc_Time[i]
             proc_dt ==
                 IF isnaN(date) THEN <<>>
                 ELSE IF date.tag = "text" THEN <<NaT>>
                 ELSE IF ~isnaS(time) /\ strip(str_(time)) # <<>>
                      THEN <<datetime_of(date, expand_time(strip(str_(time))))>>
                      ELSE <<date_to_dt(date)>>
         IN (IF ~blankS(code)
             THEN << <<clean_code(code), proc_dt, i>> >>
             ELSE <<>>) \o proc_info(row, i + 1)

extract_proc_info_enhanced(row) == proc_info(row, 1)

-----------------------------------------------------------------------------
(* The predicate kit.  position and poa are "" when the caller gives none. *)

dx_matches(dx, codes_to_check, position, poa) ==
    /\ dx[1] \in codes_to_check
    /\ (position = "" \/ dx[3] = position)
    /\ (poa = "" \/ dx[2] = S1(poa))

is_code_in_dx_list(dx_list, codes_to_check, position, poa) ==
    \E k \in 1..Len(dx_list) : dx_matches(dx_list[k], codes_to_check, position, poa)

get_matching_dx_info(dx_list, codes_to_check, position, poa) ==
    SelectSeq(dx_list, LAMBDA dx : dx_matches(dx, codes_to_check, position, poa))

valid_procs(proc_list, target_codes) ==
    {proc_list[k][2][1] : k \in {j \in 1..Len(proc_list) :
        proc_list[j][1] \in target_codes /\ proc_list[j][2] # <<>>}}

Min(S) == CHOOSE x \in S : \A y \in S : x <= y
Max(S) == CHOOSE x \in S : \A y \in S : x >= y

get_first_procedure_date(proc_list, target_codes) ==
    IF valid_procs(proc_list, target_codes) # {}
    THEN <<Min(valid_procs(proc_list, target_codes))>> ELSE <<>>

get_last_procedure_date(proc_list, target_codes) ==
    IF valid_procs(proc_list, target_codes) # {}
    THEN <<Max(valid_procs(proc_list, target_codes))>> ELSE <<>>

has_any_procedure(proc_list, target_codes) ==
    \E k \in 1..Len(proc_list) : proc_list[k][1] \in target_codes

count_procedures_of_type(proc_list, target_codes) ==
    Cardinality({k \in 1..Len(proc_list) : proc_list[k][1] \in target_codes})

-----------------------------------------------------------------------------
(* Results.  A rationale line is <<prefix, text, value>>: the text before  *)
(* the first colon, the rest of the line, and the value formatted into it  *)
(* (a code, a number as text, or "").  raised names the exception when the *)
(* evaluation ends by raising instead of returning.                        *)

NoInfo == [k \in {} |-> <<>>]
Line(prefix, text, value) == <<prefix, text, value>>

Return(psi_status, rationale, detailed_info) ==
    [status |-> psi_status, rationale |-> rationale,
     detailed_info |-> detailed_info, raised |-> ""]

\* an early return that leaves a note of the gate in the details
Excluded_with_note(line) == Return("Exclusion", <<line>>, ("excluded_by" :> line[1]))

\* an early return: psi_status is still "Exclusion", detailed_info still {}
Excluded(line) == Return("Exclusion", <<line>>, NoInfo)

Raise(exception) ==
    [status |-> "", rationale |-> <<>>, detailed_info |-> NoInfo, raised |-> exception]

codes_of(matches) == [k \in 1..Len(matches) |-> matches[k][1]]

\* the evaluator's locals with the timing switch read the wrong way round
locals_of_timing_inverted(row, validate_timing_) ==
    [ age |-> row.Age,
      ms_drg |-> IF row.MS_DRG.tag = "None" THEN <<>> ELSE strip(str_num(row.MS_DRG)),
      atype |-> row.ATYPE,
      mdc |-> row.MDC,
      drg_value |->
          LET v == IF blankN(row.DRG) THEN row.MS_DRG ELSE row.DRG
          IN IF v.tag = "int" THEN <<v.n>> ELSE <<>>,
      admit_date |-> parse_date_safe(orD(row.admission_date, row.Admission_Date)),
      length_of_stay |-> orN(row.length_of_stay, row.Length_of_stay),
      dx_list |-> extract_dx_codes_enhanced(row),
      proc_list |-> extract_proc_info_enhanced(row),
      validate_timing |-> ~validate_timing_ ]

\* the locals of evaluate_psi_comprehensive that every PSI branch reads
locals_of(row, validate_timing_) ==
    [ age |-> row.Age,
      ms_drg |-> IF row.MS_DRG.tag = "None" THEN <<>> ELSE strip(str_num(row.MS_DRG)),
      atype |-> row.ATYPE,
      mdc |-> row.MDC,
      drg_value |->
          LET v == IF blankN(row.DRG) THEN row.MS_DRG ELSE row.DRG
          IN IF v.tag = "int" THEN <<v.n>> ELSE <<>>,
      admit_date |-> parse_date_safe(orD(row.admission_date, row.Admission_Date)),
      length_of_stay |-> orN(row.length_of_stay, row.Length_of_stay),
      dx_list |-> extract_dx_codes_enhanced(row),
      proc_list |-> extract_proc_info_enhanced(row),
      validate_timing |-> validate_timing_ ]

is_surgical(L) == L.ms_drg \in get_codes("SURGI2R_CODES")
is_medical(L) == L.ms_drg \in get_codes("MEDIC2R_CODES")
is_obstetric(L) == is_code_in_dx_list(L.dx_list, get_codes("MDC14PRINDX_CODES"), "PRINCIPAL", "")
adult(L) == L.age.n >= 18
los_under_2(L) == ~isnaN(L.length_of_stay) /\ L.length_of_stay.n < 2

\* the required_fields dictionary, in its order, under the names it reports
required_fields(row) ==
    << <<"SEX", blankS(row.SEX)>>, <<"AGE", blankN(row.Age)>>,
       <<"DQTR", blankN(row.DQTR)>>, <<"YEAR", blankN(row.YEAR)>>,
       <<"DX1", blankS(orS(row.DX[1], row.Pdx))>> >>

missing_fields(row) ==
    LET miss == SelectSeq(required_fields(row), LAMBDA f : f[2])
    IN [k \in 1..Len(miss) |-> miss[k][1]]

\* The common exclusions; <<>> when none fires, else <<the early return>>.
common_exclusions(row, L) ==
    IF L.drg_value = <<drgUngroupable>>
    THEN <<Excluded(Line("Data Quality", "Ungroupable DRG (999)", <<>>))>>
    ELSE IF missing_fields(row) # <<>>
    THEN <<Excluded(Line("Data Quality", "Missing required fields", missing_fields(row)))>>
    ELSE IF is_code_in_dx_list(L.dx_list, get_codes("MDC14PRINDX_CODES"), "PRINCIPAL", "")
    THEN <<Excluded(Line("Population Exclusion", "Principal diagnosis in MDC 14 (Obstetric)", <<>>))>>
    ELSE IF is_code_in_dx_list(L.dx_list, get_codes("MDC15PRINDX_CODES"), "PRINCIPAL", "")
    THEN <<Excluded(Line("Population Exclusion", "Principal diagnosis in MDC 15 (Neonatal)", <<>>))>>
    ELSE IF L.age.n < 18
    THEN <<Excluded(Line("Age Exclusion", "Patient age < 18 years", str_num(L.age)))>>
    ELSE <<>>

\* PSI 05 - retained surgical item
psi_05(L) ==
    LET foreiid_codes == get_codes("FOREIID_CODES")
        numerator_matches == get_matching_dx_info(L.dx_list, foreiid_codes, "SECONDARY", "N")
    IN IF ~((adult(L) /\ (is_surgical(L) \/ is_medical(L))) \/ is_obstetric(L))
       THEN Excluded(Line("Population Exclusion", "Not surgical/medical DRG (>=18) or obstetric case (any age)", <<>>))
       ELSE IF is_code_in_dx_list(L.dx_list, foreiid_codes, "PRINCIPAL", "")
       THEN Excluded(Line("Exclusion", "Principal diagnosis of retained surgical item", <<>>))
       ELSE IF is_code_in_dx_list(L.dx_list, foreiid_codes, "SECONDARY", "Y")
       THEN Excluded(Line("Exclusion", "Secondary diagnosis of retained surgical item Present on Admission (POA=Y)", <<>>))
       ELSE IF numerator_matches # <<>>
       THEN Return("Inclusion",
                   <<Line("Numerator", "Retained surgical item found", numerator_matches[1][1])>>,
                   "retained_surgical_item_matches" :> codes_of(numerator_matches))
       ELSE Return("Exclusion",
                   <<Line("", "No qualifying retained surgical item diagnosis found for numerator", <<>>)>>,
                   NoInfo)

\* PSI 06 - iatrogenic pneumothorax
psi_06(L) ==
    LET iatptxd_codes == get_codes("IATPTXD_CODES")
        numerator_matches ==
            get_matching_dx_info(L.dx_list, get_codes("IATROID_CODES"), "SECONDARY", "N")
    IN IF ~(adult(L) /\ (is_surgical(L) \/ is_medical(L)))
       THEN Excluded(Line("Population Exclusion", "Not surgical/medical DRG or age < 18", <<>>))
       ELSE IF is_code_in_dx_list(L.dx_list, iatptxd_codes, "PRINCIPAL", "")
       THEN Excluded(Line("Exclusion", "Principal diagnosis of non-traumatic pneumothorax", <<>>))
       ELSE IF is_code_in_dx_list(L.dx_list, iatptxd_codes, "SECONDARY", "Y")
       THEN Excluded(Line("Exclusion", "Secondary diagnosis of non-traumatic pneumothorax POA=Y", <<>>))
       ELSE IF is_code_in_dx_list(L.dx_list, get_codes("CTRAUMD_CODES"), "", "")
       THEN Excluded(Line("Exclusion", "Any diagnosis of specified chest trauma", <<>>))
       ELSE IF is_code_in_dx_list(L.dx_list, get_codes("PLEURAD_CODES"), "", "")
       THEN Excluded(Line("Exclusion", "Any diagnosis of pleural effusion", <<>>))
       ELSE IF \/ has_any_procedure(L.proc_list, get_codes("THORAIP_CODES"))
               \/ has_any_procedure(L.proc_list, get_codes("CARDSIP_CODES"))
       THEN Excluded(Line("Exclusion", "Thoracic surgery or trans-pleural cardiac procedure", <<>>))
       ELSE IF numerator_matches # <<>>
       THEN Return("Inclusion",
                   <<Line("Numerator", "Iatrogenic pneumothorax found", numerator_matches[1][1])>>,
                   "iatrogenic_pneumothorax_matches" :> codes_of(numerator_matches))
       ELSE Return("Exclusion",
                   <<Line("", "No qualifying iatrogenic pneumothorax diagnosis found for numerator", <<>>)>>,
                   NoInfo)

\* PSI 07 - central venous catheter-related bloodstream infection
psi_07(L) ==
    LET idtmc3d_codes == get_codes("IDTMC3D_CODES")
        numerator_matches == get_matching_dx_info(L.dx_list, idtmc3d_codes, "SECONDARY", "N")
    IN IF ~((adult(L) /\ (is_surgical(L) \/ is_medical(L))) \/ is_obstetric(L))
       THEN Excluded(Line("Population Exclusion", "Not surgical/medical DRG (>=18) or obstetric case (any age)", <<>>))
       ELSE IF is_code_in_dx_list(L.dx_list, idtmc3d_codes, "PRINCIPAL", "")
       THEN Excluded(Line("Exclusion", "Principal diagnosis of CVC-related BSI", <<>>))
       ELSE IF is_code_in_dx_list(L.dx_list, idtmc3d_codes, "SECONDARY", "Y")
       THEN Excluded(Line("Exclusion", "Secondary diagnosis of CVC-related BSI POA=Y", <<>>))
       ELSE IF los_under_2(L)
       THEN Excluded(Line("Exclusion", "Length of stay < 2 days", str_num(L.length_of_stay)))
       ELSE IF is_code_in_dx_list(L.dx_list, get_codes("CANCEID_CODES"), "", "")
       THEN Excluded(Line("Exclusion", "Any diagnosis of cancer", <<>>))
       ELSE IF \/ is_code_in_dx_list(L.dx_list, get_codes("IMMUNID_CODES"), "", "")
               \/ has_any_procedure(L.proc_list, get_codes("IMMUNIP_CODES"))
       THEN Excluded(Line("Exclusion", "Any diagnosis/procedure for immunocompromised state", <<>>))
       ELSE IF numerator_matches # <<>>
       THEN Return("Inclusion",
                   <<Line("Numerator", "CVC-related BSI found", numerator_matches[1][1])>>,
                   "cvc_bsi_matches" :> codes_of(numerator_matches))
       ELSE Return("Exclusion",
                   <<Line("", "No qualifying CVC-related BSI diagnosis found for numerator", <<>>)>>,
                   NoInfo)

\* the other fracture reported ahead of the hip fracture
psi_08_numerator_unordered(hip_fx_matches, other_fx_matches) ==
    IF other_fx_matches # <<>>
    THEN Return("Inclusion",
                <<Line("Numerator", "Other fracture found", other_fx_matches[1][1])>>,
                ("fracture_type" :> "other_fracture")
                    @@ ("other_fracture_matches" :> codes_of(other_fx_matches))
                    @@ ("overall_fracture" :> TRUE))
    ELSE IF hip_fx_matches # <<>>
    THEN Return("Inclusion",
                <<Line("Numerator", "Hip fracture found", hip_fx_matches[1][1])>>,
                ("fracture_type" :> "hip_fracture")
                    @@ ("hip_fracture_matches" :> codes_of(hip_fx_matches))
                    @@ ("overall_fracture" :> TRUE))
    ELSE Return("Exclusion",
                <<Line("", "No qualifying in-hospital fracture found for numerator", <<>>)>>,
                NoInfo)

\* the hierarchical numerator of PSI 08: hip fracture first
psi_08_numerator(hip_fx_matches, other_fx_matches) ==
    IF hip_fx_matches # <<>>
    THEN Return("Inclusion",
                <<Line("Numerator", "Hip fracture found", hip_fx_matches[1][1])>>,
                ("fracture_type" :> "hip_fracture")
                    @@ ("hip_fracture_matches" :> codes_of(hip_fx_matches))
                    @@ ("overall_fracture" :> TRUE))
    ELSE IF other_fx_matches # <<>>
    THEN Return("Inclusion",
                <<Line("Numerator", "Other fracture found", other_fx_matches[1][1])>>,
                ("fracture_type" :> "other_fracture")
                    @@ ("other_fracture_matches" :> codes_of(other_fx_matches))
                    @@ ("overall_fracture" :> TRUE))
    ELSE Return("Exclusion",
                <<Line("", "No qualifying in-hospital fracture found for numerator", <<>>)>>,
                NoInfo)

\* PSI 08 - in-hospital fall-associated fracture
psi_08(L) ==
    LET fxid_codes == get_codes("FXID_CODES")
        hip_fx_codes == get_codes("HIPFXID_CODES")
    IN IF ~(adult(L) /\ (is_surgical(L) \/ is_medical(L)))
       THEN Excluded(Line("Population Exclusion", "Not surgical/medical DRG or age < 18", <<>>))
       ELSE IF is_code_in_dx_list(L.dx_list, fxid_codes, "PRINCIPAL", "")
       THEN Excluded(Line("Exclusion", "Principal diagnosis of fracture", <<>>))
       ELSE IF is_code_in_dx_list(L.dx_list, fxid_codes, "SECONDARY", "Y")
       THEN Excluded(Line("Exclusion", "Secondary diagnosis of fracture POA=Y", <<>>))
       ELSE IF is_code_in_dx_list(L.dx_list, get_codes("PROSFXID_CODES"), "", "")
       THEN Excluded(Line("Exclusion", "Any diagnosis of joint prosthesis-associated fracture", <<>>))
       ELSE psi_08_numerator(
                get_matching_dx_info(L.dx_list, hip_fx_codes, "SECONDARY", "N"),
                SelectSeq(get_matching_dx_info(L.dx_list, fxid_codes, "SECONDARY", "N"),
                          LAMBDA m : m[1] \notin hip_fx_codes))

\* t1 < t2, t1 > t2 on timestamps that may be None: false when either is
lt_dt(a, b) == a # <<>> /\ b # <<>> /\ a[1] < b[1]
gt_dt(a, b) == a # <<>> /\ b # <<>> /\ a[1] > b[1]
\* a.date() <= b.date()
le_date(a, b) == a # <<>> /\ b # <<>> /\ date_(a[1]) <= date_(b[1])

\* PSI 09 - postoperative hemorrhage or hematoma.  first_or_date and
\* first_hemoth2p_date are assigned only inside `if validate_timing and
\* admit_date:`; the numerator reads them whenever validate_timing is set.
psi_09(L) ==
    LET or_proc_codes == get_codes("ORPROC_CODES")
        pohmri2d_codes == get_codes("POHMRI2D_CODES")
        hemoth2p_codes == get_codes("HEMOTH2P_CODES")
        medbleedd_codes == get_codes("MEDBLEEDD_CODES")
        timing_block == L.validate_timing /\ L.admit_date # <<>>
        first_or_date == get_first_procedure_date(L.proc_list, or_proc_codes)
        first_hemoth2p_date == get_first_procedure_date(L.proc_list, hemoth2p_codes)
        first_thrombolyticp_date ==
            get_first_procedure_date(L.proc_list, get_codes("THROMBOLYTICP_CODES"))
        numerator_dx_matches ==
            get_matching_dx_info(L.dx_list, pohmri2d_codes, "SECONDARY", "N")
        has_treatment_procedure == has_any_procedure(L.proc_list, hemoth2p_codes)
        included(note) ==
            Return("Inclusion",
                   <<Line("Numerator", "Postop hemorrhage/hematoma with treatment" \o note,
                          numerator_dx_matches[1][1])>>,
                   ("hemorrhage_dx_matches" :> codes_of(numerator_dx_matches))
                       @@ ("has_treatment_procedure" :> TRUE))
        missed(line) == Return("Exclusion", <<line>>, NoInfo)
    IN IF ~(adult(L) /\ is_surgical(L) /\ has_any_procedure(L.proc_list, or_proc_codes))
       THEN Excluded(Line("Population Exclusion", "Not surgical DRG (>=18) or no OR procedure", <<>>))
       ELSE IF is_code_in_dx_list(L.dx_list, pohmri2d_codes, "PRINCIPAL", "")
       THEN Excluded(Line("Exclusion", "Principal diagnosis of postoperative hemorrhage/hematoma", <<>>))
       ELSE IF is_code_in_dx_list(L.dx_list, pohmri2d_codes, "SECONDARY", "Y")
       THEN Excluded(Line("Exclusion", "Secondary diagnosis of postoperative hemorrhage/hematoma POA=Y", <<>>))
       ELSE IF is_code_in_dx_list(L.dx_list, get_codes("COAGDID_CODES"), "", "")
       THEN Excluded(Line("Exclusion", "Any diagnosis of coagulation disorder", <<>>))
       ELSE IF is_code_in_dx_list(L.dx_list, medbleedd_codes, "PRINCIPAL", "")
       THEN Excluded(Line("Exclusion", "Principal diagnosis of medication-related coagulopathy", <<>>))
       ELSE IF is_code_in_dx_list(L.dx_list, medbleedd_codes, "SECONDARY", "Y")
       THEN Excluded(Line("Exclusion", "Secondary diagnosis of medication-related coagulopathy POA=Y", <<>>))
       ELSE IF /\ timing_block
               /\ count_procedures_of_type(L.proc_list, or_proc_codes) = 1
               /\ has_any_procedure(L.proc_list, hemoth2p_codes)
       THEN Excluded(Line("Exclusion", "Only OR procedure is for hemorrhage/hematoma treatment", <<>>))
       ELSE IF timing_block /\ lt_dt(first_hemoth2p_date, first_or_date)
       THEN Excluded(Line("Exclusion", "Hemorrhage treatment before first OR procedure", <<>>))
       ELSE IF timing_block /\ le_date(first_thrombolyticp_date, first_hemoth2p_date)
       THEN Excluded(Line("Exclusion", "Thrombolytic therapy before/same day as hemorrhage treatment", <<>>))
       ELSE IF numerator_dx_matches # <<>> /\ has_treatment_procedure
       THEN IF L.validate_timing /\ ~timing_block
            THEN Raise("UnboundLocalError")
            ELSE IF L.validate_timing /\ first_or_date # <<>> /\ first_hemoth2p_date # <<>>
            THEN IF gt_dt(first_hemoth2p_date, first_or_date)
                 THEN included("")
                 ELSE missed(Line("Numerator", "Hemorrhage treatment procedure occurred before or same day as first OR procedure (timing mismatch)", <<>>))
            ELSE IF ~L.validate_timing
            THEN included(" (Timing validation off)")
            ELSE missed(Line("Numerator", "Missing procedure dates for timing validation", <<>>))
       ELSE IF numerator_dx_matches # <<>>
       THEN missed(Line("Numerator", "Postop hemorrhage/hematoma diagnosis found, but no qualifying treatment procedure", <<>>))
       ELSE IF has_treatment_procedure
       THEN missed(Line("Numerator", "Treatment procedure found, but no qualifying postop hemorrhage/hematoma diagnosis", <<>>))
       ELSE missed(Line("", "No qualifying postop hemorrhage/hematoma diagnosis or treatment procedure found for numerator", <<>>))

\* PSI 10 - postoperative acute kidney injury requiring dialysis.
\* first_or_date and first_dialy_date are assigned as in PSI 09.
psi_10(L) ==
    LET or_proc_codes == get_codes("ORPROC_CODES")
        physidb_codes == get_codes("PHYSIDB_CODES")
        dialyip_codes == get_codes("DIALYIP_CODES")
        crenlfd_codes == get_codes("CRENLFD_CODES")
        cardiac_shock_dx_codes ==
            get_codes("CARDIID_CODES") \cup get_codes("CARDRID_CODES")
                \cup get_codes("SHOCKID_CODES")
        is_elective_surgical_drg == is_surgical(L) /\ L.atype = Int_(3)
        timing_block == L.validate_timing /\ L.admit_date # <<>>
        first_or_date == get_first_procedure_date(L.proc_list, or_proc_codes)
        first_dialy_date == get_first_procedure_date(L.proc_list, dialyip_codes)
        first_dialy2_date == get_first_procedure_date(L.proc_list, get_codes("DIALY2P_CODES"))
        has_sol_kidney_poa == is_code_in_dx_list(L.dx_list, get_codes("SOLKIDD_CODES"), "", "Y")
        has_nephrectomy_proc == has_any_procedure(L.proc_list, get_codes("PNEPHREP_CODES"))
        numerator_dx_matches ==
            get_matching_dx_info(L.dx_list, physidb_codes, "SECONDARY", "N")
        has_dialysis_procedure == has_any_procedure(L.proc_list, dialyip_codes)
        included(note) ==
            Return("Inclusion",
                   <<Line("Numerator", "Postop AKI requiring dialysis" \o note,
                          numerator_dx_matches[1][1])>>,
                   ("aki_dx_matches" :> codes_of(numerator_dx_matches))
                       @@ ("has_dialysis_procedure" :> TRUE))
        missed(line) == Return("Exclusion", <<line>>, NoInfo)
    IN IF ~(adult(L) /\ is_elective_surgical_drg /\ has_any_procedure(L.proc_list, or_proc_codes))
       THEN Excluded(Line("Population Exclusion", "Not elective surgical DRG (>=18) or no OR procedure", <<>>))
       ELSE IF is_code_in_dx_list(L.dx_list, physidb_codes, "PRINCIPAL", "")
       THEN Excluded(Line("Exclusion", "Principal diagnosis of acute kidney failure", <<>>))
       ELSE IF is_code_in_dx_list(L.dx_list, physidb_codes, "SECONDARY", "Y")
       THEN Excluded(Line("Exclusion", "Secondary diagnosis of acute kidney failure POA=Y", <<>>))
       ELSE IF timing_block /\ le_date(first_dialy_date, first_or_date)
       THEN Excluded(Line("Exclusion", "Dialysis procedure before or same day as first OR procedure", <<>>))
       ELSE IF timing_block /\ le_date(first_dialy2_date, first_or_date)
       THEN Excluded(Line("Exclusion", "Dialysis access procedure before or same day as first OR procedure", <<>>))
       ELSE IF \/ is_code_in_dx_list(L.dx_list, cardiac_shock_dx_codes, "PRINCIPAL", "")
               \/ is_code_in_dx_list(L.dx_list, cardiac_shock_dx_codes, "SECONDARY", "Y")
       THEN Excluded(Line("Exclusion", "Principal/POA diagnosis of cardiac arrest, dysrhythmia, or shock", <<>>))
       ELSE IF \/ is_code_in_dx_list(L.dx_list, crenlfd_codes, "PRINCIPAL", "")
               \/ is_code_in_dx_list(L.dx_list, crenlfd_codes, "SECONDARY", "Y")
       THEN Excluded(Line("Exclusion", "Principal/POA diagnosis of CKD stage 5 or ESRD", <<>>))
       ELSE IF is_code_in_dx_list(L.dx_list, get_codes("URINARYOBSID_CODES"), "PRINCIPAL", "")
       THEN Excluded(Line("Exclusion", "Principal diagnosis of urinary tract obstruction", <<>>))
       ELSE IF has_sol_kidney_poa /\ has_nephrectomy_proc
       THEN Excluded(Line("Exclusion", "Solitary kidney (POA) with partial/total nephrectomy", <<>>))
       ELSE IF numerator_dx_matches # <<>> /\ has_dialysis_procedure
       THEN IF L.validate_timing /\ ~timing_block
            THEN Raise("UnboundLocalError")
            ELSE IF L.validate_timing /\ first_or_date # <<>> /\ first_dialy_date # <<>>
            THEN IF gt_dt(first_dialy_date, first_or_date)
                 THEN included("")
                 ELSE missed(Line("Numerator", "Dialysis procedure occurred before or same day as first OR procedure (timing mismatch)", <<>>))
            ELSE IF ~L.validate_timing
            THEN included(" (Timing validation off)")
            ELSE missed(Line("Numerator", "Missing procedure dates for timing validation", <<>>))
       ELSE IF numerator_dx_matches # <<>>
       THEN missed(Line("Numerator", "AKI diagnosis found, but no qualifying dialysis procedure", <<>>))
       ELSE IF has_dialysis_procedure
       THEN missed(Line("Numerator", "Dialysis procedure found, but no qualifying AKI diagnosis", <<>>))
       ELSE missed(Line("", "No qualifying postop AKI diagnosis or dialysis procedure found for numerator", <<>>))

\* last >= first + timedelta(days=d) on timestamps that may be None
ge_plus_days(last, first, d) ==
    last # <<>> /\ first # <<>> /\ last[1] >= first[1] + d * MinutesPerDay

\* PSI 11 - postoperative respiratory failure
psi_11(L) ==
    LET or_proc_codes == get_codes("ORPROC_CODES")
        acurf3d_codes == get_codes("ACURF3D_CODES")
        trachip_codes == get_codes("TRACHIP_CODES")
        is_elective_surgical_drg == is_surgical(L) /\ L.atype = Int_(3)
        high_risk_surgery_codes ==
            get_codes("NUCRANP_CODES") \cup get_codes("PRESOPP_CODES")
                \cup get_codes("LUNGCIP_CODES") \cup get_codes("LUNGTRANSP_CODES")
        first_or_date == get_first_procedure_date(L.proc_list, or_proc_codes)
        first_trachip_date == get_first_procedure_date(L.proc_list, trachip_codes)
        crit(codes, d) ==
            IF L.validate_timing /\ first_or_date # <<>>
            THEN ge_plus_days(get_last_procedure_date(L.proc_list, codes), first_or_date, d)
            ELSE ~L.validate_timing /\ has_any_procedure(L.proc_list, codes)
        crit1_met == is_code_in_dx_list(L.dx_list, get_codes("ACURF2D_CODES"), "SECONDARY", "N")
        crit2_met == crit(get_codes("PR9672P_CODES"), 0)
        crit3_met == crit(get_codes("PR9671P_CODES"), 2)
        crit4_met == crit(get_codes("PR9604P_CODES"), 1)
    IN IF ~(adult(L) /\ is_elective_surgical_drg /\ has_any_procedure(L.proc_list, or_proc_codes))
       THEN Excluded(Line("Population Exclusion", "Not elective surgical DRG (>=18) or no OR procedure", <<>>))
       ELSE IF is_code_in_dx_list(L.dx_list, acurf3d_codes, "PRINCIPAL", "")
       THEN Excluded(Line("Exclusion", "Principal diagnosis of acute respiratory failure", <<>>))
       ELSE IF is_code_in_dx_list(L.dx_list, acurf3d_codes, "SECONDARY", "Y")
       THEN Excluded(Line("Exclusion", "Secondary diagnosis of acute respiratory failure POA=Y", <<>>))
       ELSE IF is_code_in_dx_list(L.dx_list, get_codes("TRACHID_CODES"), "", "Y")
       THEN Excluded(Line("Exclusion", "Any diagnosis of tracheostomy POA=Y", <<>>))
       ELSE IF /\ count_procedures_of_type(L.proc_list, or_proc_codes) = 1
               /\ has_any_procedure(L.proc_list, trachip_codes)
       THEN Excluded(Line("Exclusion", "Only OR procedure is tracheostomy", <<>>))
       ELSE IF L.validate_timing /\ lt_dt(first_trachip_date, first_or_date)
       THEN Excluded(Line("Exclusion", "Tracheostomy procedure before first OR procedure", <<>>))
       ELSE IF is_code_in_dx_list(L.dx_list, get_codes("MALHYPD_CODES"), "", "")
       THEN Excluded(Line("Exclusion", "Any diagnosis of malignant hyperthermia", <<>>))
       ELSE IF is_code_in_dx_list(L.dx_list, get_codes("NEUROMD_CODES"), "", "Y")
       THEN Excluded(Line("Exclusion", "Any diagnosis of neuromuscular disorder POA=Y", <<>>))
       ELSE IF is_code_in_dx_list(L.dx_list, get_codes("DGNEUID_CODES"), "", "Y")
       THEN Excluded(Line("Exclusion", "Any diagnosis of degenerative neurological disorder POA=Y", <<>>))
       ELSE IF has_any_procedure(L.proc_list, high_risk_surgery_codes)
       THEN Excluded(Line("Exclusion", "Patient underwent high-risk surgery (e.g., head/neck, esophageal, lung transplant)", <<>>))
       ELSE IF L.mdc = Int_(4)
       THEN Excluded(Line("Exclusion", "MDC 4 (Respiratory System Disorders)", <<>>))
       ELSE IF crit1_met \/ crit2_met \/ crit3_met \/ crit4_met
       THEN Return("Inclusion",
                   <<Line("Numerator", "Patient meets at least one postoperative respiratory complication criterion.", <<>>)>>,
                   ("crit1_met" :> crit1_met) @@ ("crit2_met" :> crit2_met)
                       @@ ("crit3_met" :> crit3_met) @@ ("crit4_met" :> crit4_met))
       ELSE Return("Exclusion",
                   <<Line("", "No qualifying postoperative respiratory failure criteria met for numerator.", <<>>)>>,
                   NoInfo)

\* PSI 12 - perioperative pulmonary embolism or deep vein thrombosis
psi_12(L) ==
    LET or_proc_codes == get_codes("ORPROC_CODES")
        deepvib_codes == get_codes("DEEPVIB_CODES")
        pulmoid_codes == get_codes("PULMOID_CODES")
        venacip_codes == get_codes("VENACIP_CODES")
        thromp_codes == get_codes("THROMP_CODES")
        timing_block == L.validate_timing /\ L.admit_date # <<>>
        first_or_date == get_first_procedure_date(L.proc_list, or_proc_codes)
        first_venacip_date == get_first_procedure_date(L.proc_list, venacip_codes)
        first_thromp_date == get_first_procedure_date(L.proc_list, thromp_codes)
        all_or_procs ==
            SelectSeq([k \in 1..Len(L.proc_list) |-> L.proc_list[k][1]],
                      LAMBDA code : code \in or_proc_codes)
        numerator_matches ==
            get_matching_dx_info(L.dx_list, deepvib_codes \cup pulmoid_codes, "SECONDARY", "N")
    IN IF ~(adult(L) /\ is_surgical(L) /\ has_any_procedure(L.proc_list, or_proc_codes))
       THEN Excluded(Line("Population Exclusion", "Not surgical DRG (>=18) or no OR procedure", <<>>))
       ELSE IF \/ is_code_in_dx_list(L.dx_list, deepvib_codes, "PRINCIPAL", "")
               \/ is_code_in_dx_list(L.dx_list, pulmoid_codes, "PRINCIPAL", "")
       THEN Excluded(Line("Exclusion", "Principal diagnosis of DVT or PE", <<>>))
       ELSE IF \/ is_code_in_dx_list(L.dx_list, deepvib_codes, "SECONDARY", "Y")
               \/ is_code_in_dx_list(L.dx_list, pulmoid_codes, "SECONDARY", "Y")
       THEN Excluded(Line("Exclusion", "Secondary diagnosis of DVT or PE POA=Y", <<>>))
       ELSE IF is_code_in_dx_list(L.dx_list, get_codes("HITD_CODES"), "SECONDARY", "")
       THEN Excluded(Line("Exclusion", "Secondary diagnosis of heparin-induced thrombocytopenia", <<>>))
       ELSE IF is_code_in_dx_list(L.dx_list, get_codes("NEURTRAD_CODES"), "", "Y")
       THEN Excluded(Line("Exclusion", "Any diagnosis of acute brain or spinal injury POA=Y", <<>>))
       ELSE IF has_any_procedure(L.proc_list, get_codes("ECMOP_CODES"))
       THEN Excluded(Line("Exclusion", "Patient underwent ECMO procedure", <<>>))
       ELSE IF timing_block /\ le_date(first_venacip_date, first_or_date)
       THEN Excluded(Line("Exclusion", "Vena cava interruption before/same day as first OR procedure", <<>>))
       ELSE IF timing_block /\ le_date(first_thromp_date, first_or_date)
       THEN Excluded(Line("Exclusion", "Thrombectomy before/same day as first OR procedure", <<>>))
       ELSE IF /\ timing_block
               /\ \A k \in 1..Len(all_or_procs) : all_or_procs[k] \in venacip_codes \cup thromp_codes
               /\ Len(all_or_procs) > 0
       THEN Excluded(Line("Exclusion", "Only OR procedures are vena cava interruption/thrombectomy", <<>>))
       ELSE IF /\ timing_block
               /\ first_or_date # <<>>
               /\ days_between(first_or_date[1], L.admit_date[1]) >= 10
       THEN Excluded(Line("Exclusion", "First OR procedure on/after 10th day of admission",
                          str_nat(days_between(first_or_date[1], L.admit_date[1]))))
       ELSE IF numerator_matches # <<>>
       THEN Return("Inclusion",
                   <<Line("Numerator", "Perioperative DVT/PE found", numerator_matches[1][1])>>,
                   "dvt_pe_matches" :> codes_of(numerator_matches))
       ELSE Return("Exclusion",
                   <<Line("", "No qualifying perioperative DVT/PE diagnosis found for numerator", <<>>)>>,
                   NoInfo)

\* the PSI 13 risk category
classify_immune_compromise(dx_list, proc_list) ==
    LET SEVERE_IMMUNE_DX == get_codes("SEVEREIMMUNED_CODES")
        MODERATE_IMMUNE_DX == get_codes("MODERATEIMMUNED_CODES")
        has_malignancy_dx == is_code_in_dx_list(dx_list, get_codes("MALIGNANCY_CODES"), "", "")
        has_chemo_proc == has_any_procedure(proc_list, get_codes("CHEMOTHERAPYP_CODES"))
        has_radiation_proc == has_any_procedure(proc_list, get_codes("RADIATIONP_CODES"))
    IN IF \/ is_code_in_dx_list(dx_list, SEVERE_IMMUNE_DX, "", "Y")
          \/ is_code_in_dx_list(dx_list, SEVERE_IMMUNE_DX, "", "N")
       THEN "severe_immune_compromise"
       ELSE IF \/ is_code_in_dx_list(dx_list, MODERATE_IMMUNE_DX, "", "Y")
               \/ is_code_in_dx_list(dx_list, MODERATE_IMMUNE_DX, "", "N")
       THEN "moderate_immune_compromise"
       ELSE IF has_malignancy_dx /\ (has_chemo_proc \/ has_radiation_proc)
       THEN "malignancy_with_treatment"
       ELSE "baseline_risk"

\* the PSI 15 risk category counted over the set of codes of the index day
classify_procedure_complexity_psi15_distinct(proc_list, index_procedure_date) ==
    LET codes_on_index_date ==
            {proc_list[j][1] : j \in {j \in 1..Len(proc_list) :
                /\ proc_list[j][2] # <<>>
                /\ index_procedure_date # <<>>
                /\ date_(proc_list[j][2][1]) = date_(index_procedure_date[1])}}
    IN IF Cardinality(codes_on_index_date) >= 5 THEN "high_complexity"
       ELSE IF Cardinality(codes_on_index_date) >= 2 THEN "moderate_complexity"
       ELSE "low_complexity"

\* the PSI 15 risk category: the procedures dated on the index day are counted
classify_procedure_complexity_psi15(proc_list, index_procedure_date) ==
    LET procs_on_index_date ==
            SelectSeq(proc_list, LAMBDA p :
                /\ p[2] # <<>>
                /\ index_procedure_date # <<>>
                /\ date_(p[2][1]) = date_(index_procedure_date[1]))
        num_procs_on_index_date == Len(procs_on_index_date)
    IN IF num_procs_on_index_date >= 5 THEN "high_complexity"
       ELSE IF num_procs_on_index_date >= 2 THEN "moderate_complexity"
       ELSE "low_complexity"

\* PSI 13 - postoperative sepsis
psi_13(L) ==
    LET or_proc_codes == get_codes("ORPROC_CODES")
        sepsi2d_codes == get_codes("SEPTI2D_CODES")
        infecid_codes == get_codes("INFECID_CODES")
        is_elective_surgical_drg == is_surgical(L) /\ L.atype = Int_(3)
        timing_block == L.validate_timing /\ L.admit_date # <<>>
        first_or_date == get_first_procedure_date(L.proc_list, or_proc_codes)
        numerator_matches == get_matching_dx_info(L.dx_list, sepsi2d_codes, "SECONDARY", "N")
        risk_category == classify_immune_compromise(L.dx_list, L.proc_list)
        risk_line == Line("Risk Category", risk_category, <<>>)
    IN IF ~(adult(L) /\ is_elective_surgical_drg /\ has_any_procedure(L.proc_list, or_proc_codes))
       THEN Excluded(Line("Population Exclusion", "Not elective surgical DRG (>=18) or no OR procedure", <<>>))
       ELSE IF is_code_in_dx_list(L.dx_list, sepsi2d_codes, "PRINCIPAL", "")
       THEN Excluded(Line("Exclusion", "Principal diagnosis of sepsis", <<>>))
       ELSE IF is_code_in_dx_list(L.dx_list, sepsi2d_codes, "SECONDARY", "Y")
       THEN Excluded(Line("Exclusion", "Secondary diagnosis of sepsis POA=Y", <<>>))
       ELSE IF is_code_in_dx_list(L.dx_list, infecid_codes, "PRINCIPAL", "")
       THEN Excluded(Line("Exclusion", "Principal diagnosis of general infection", <<>>))
       ELSE IF is_code_in_dx_list(L.dx_list, infecid_codes, "SECONDARY", "Y")
       THEN Excluded(Line("Exclusion", "Secondary diagnosis of general infection POA=Y", <<>>))
       ELSE IF /\ timing_block
               /\ first_or_date # <<>>
               /\ days_between(first_or_date[1], L.admit_date[1]) >= 10
       THEN Excluded(Line("Exclusion", "First OR procedure on/after 10th day of admission",
                          str_nat(days_between(first_or_date[1], L.admit_date[1]))))
       ELSE IF numerator_matches # <<>>
       THEN Return("Inclusion",
                   <<Line("Numerator", "Postoperative sepsis found", numerator_matches[1][1]),
                     risk_line>>,
                   ("sepsis_matches" :> codes_of(numerator_matches))
                       @@ ("risk_category" :> risk_category))
       ELSE Return("Exclusion",
                   <<Line("", "No qualifying postoperative sepsis diagnosis found for numerator", <<>>),
                     risk_line>>,
                   "risk_category" :> risk_category)

\* PSI 14 - postoperative wound dehiscence
psi_14(L) ==
    LET abdomipopen_codes == get_codes("ABDOMIPOPEN_CODES")
        abdomipother_codes == get_codes("ABDOMIPOTHER_CODES")
        recloip_codes == get_codes("RECLOIP_CODES")
        abwallcd_codes == get_codes("ABWALLCD_CODES")
        has_open_abdominal == has_any_procedure(L.proc_list, abdomipopen_codes)
        has_other_abdominal == has_any_procedure(L.proc_list, abdomipother_codes)
        first_open_abdom_date == get_first_procedure_date(L.proc_list, abdomipopen_codes)
        first_other_abdom_date == get_first_procedure_date(L.proc_list, abdomipother_codes)
        last_recloip_date == get_last_procedure_date(L.proc_list, recloip_codes)
        has_reclosure_procedure == has_any_procedure(L.proc_list, recloip_codes)
        wound_disruption_dx_matches == get_matching_dx_info(L.dx_list, abwallcd_codes, "", "N")
        stratum == IF has_open_abdominal THEN "open_approach" ELSE "non_open_approach"
        missed(line) == Return("Exclusion", <<line>>, NoInfo)
    IN IF ~(adult(L) /\ (has_open_abdominal \/ has_other_abdominal))
       THEN Excluded(Line("Population Exclusion", "Not age >= 18 or no abdominopelvic surgery", <<>>))
       ELSE IF is_code_in_dx_list(L.dx_list, abwallcd_codes, "PRINCIPAL", "")
       THEN Excluded(Line("Exclusion", "Principal diagnosis of wound disruption", <<>>))
       ELSE IF is_code_in_dx_list(L.dx_list, abwallcd_codes, "SECONDARY", "Y")
       THEN Excluded(Line("Exclusion", "Secondary diagnosis of wound disruption POA=Y", <<>>))
       ELSE IF los_under_2(L)
       THEN Excluded(Line("Exclusion", "Length of stay < 2 days", str_num(L.length_of_stay)))
       ELSE IF L.validate_timing /\ le_date(last_recloip_date, first_open_abdom_date)
       THEN Excluded(Line("Exclusion", "Reclosure before/same day as first open abdominopelvic surgery", <<>>))
       ELSE IF L.validate_timing /\ le_date(last_recloip_date, first_other_abdom_date)
       THEN Excluded(Line("Exclusion", "Reclosure before/same day as first non-open abdominopelvic surgery", <<>>))
       ELSE IF has_reclosure_procedure /\ wound_disruption_dx_matches # <<>>
       THEN Return("Inclusion",
                   <<Line("Numerator", "Postoperative wound dehiscence with reclosure procedure",
                          wound_disruption_dx_matches[1][1]),
                     Line("Stratum", stratum, <<>>)>>,
                   ("has_reclosure_procedure" :> TRUE)
                       @@ ("wound_disruption_dx_matches" :> codes_of(wound_disruption_dx_matches))
                       @@ ("stratum" :> stratum))
       ELSE IF has_reclosure_procedure
       THEN missed(Line("Numerator", "Reclosure procedure found, but no qualifying wound disruption diagnosis", <<>>))
       ELSE IF wound_disruption_dx_matches # <<>>
       THEN missed(Line("Numerator", "Wound disruption diagnosis found, but no reclosure procedure", <<>>))
       ELSE missed(Line("", "No qualifying wound dehiscence criteria met for numerator", <<>>))

\* One pass of the PSI 15 organ loop: what the loop computes for one organ.
\* the related procedures of one organ that fall 1..30 days after the index date
related_procs_in_window(proc_list, procedure_codes, index_procedure_date) ==
    SelectSeq(proc_list, LAMBDA p :
        /\ p[1] \in procedure_codes
        /\ p[2] # <<>>
        /\ index_procedure_date # <<>>
        /\ 1 <= days_between(p[2][1], index_procedure_date[1])
        /\ days_between(p[2][1], index_procedure_date[1]) <= 30)

organ_result(organ_name, injury_dx_matches, related_proc_matches, poa_injury_matches) ==
    LET is_excluded_by_poa == poa_injury_matches # <<>> /\ related_proc_matches # <<>>
    IN [ organ_name |-> organ_name,
         has_injury_dx |-> Len(injury_dx_matches) > 0,
         has_related_proc_in_window |-> Len(related_proc_matches) > 0,
         is_poa_excluded |-> is_excluded_by_poa,
         poa_line |->
             IF is_excluded_by_poa
             THEN <<Line("Exclusion",
                         "POA injury with matching related procedure for " \o organ_name,
                         poa_injury_matches[1][1])>>
             ELSE <<>>,
         qualifies |->
             injury_dx_matches # <<>> /\ related_proc_matches # <<>> /\ ~is_excluded_by_poa ]

organ_analysis(L, organ_name, index_procedure_date) ==
    organ_result(
        organ_name,
        get_matching_dx_info(L.dx_list, organ_systems[organ_name].injury_codes,
                             "SECONDARY", "N"),
        related_procs_in_window(L.proc_list, organ_systems[organ_name].procedure_codes,
                                index_procedure_date),
        get_matching_dx_info(L.dx_list, organ_systems[organ_name].injury_codes,
                             "SECONDARY", "Y"))

RECURSIVE Flatten(_)
Flatten(ss) == IF ss = <<>> THEN <<>> ELSE Head(ss) \o Flatten(Tail(ss))

organ_names_of(qualifying) == [k \in 1..Len(qualifying) |-> qualifying[k].organ_name]

organ_details(analysis) ==
    [o \in {OrganSystem[k] : k \in 1..Len(OrganSystem)} |->
        LET a == analysis[CHOOSE k \in 1..Len(OrganSystem) : OrganSystem[k] = o]
        IN [has_injury_dx |-> a.has_injury_dx,
            has_related_proc_in_window |-> a.has_related_proc_in_window,
            is_poa_excluded |-> a.is_poa_excluded]]

\* the numerator of PSI 15, from the per-organ analysis
psi_15_numerator(poa_lines, qualifying_organs_for_numerator, organ_analysis_results, risk_category) ==
    IF qualifying_organs_for_numerator # <<>>
    THEN Return("Inclusion",
                poa_lines
                    \o <<Line("Numerator", "Accidental puncture/laceration found for organs",
                              qualifying_organs_for_numerator),
                         Line("Risk Category", risk_category, <<>>)>>,
                ("organ_analysis_results" :> organ_analysis_results)
                    @@ ("qualifying_organs" :> qualifying_organs_for_numerator)
                    @@ ("risk_category" :> risk_category))
    ELSE Return("Exclusion",
                poa_lines
                    \o <<Line("", "No qualifying accidental puncture/laceration (injury + procedure + timing + organ match) found for numerator", <<>>),
                         Line("Risk Category", risk_category, <<>>)>>,
                ("organ_analysis_results" :> organ_analysis_results)
                    @@ ("risk_category" :> risk_category))

psi_15_organs(analysis, risk_category) ==
    psi_15_numerator(
        Flatten([k \in 1..Len(analysis) |-> analysis[k].poa_line]),
        organ_names_of(SelectSeq(analysis, LAMBDA a : a.qualifies)),
        organ_details(analysis),
        risk_category)

psi_15_indexed(L, index_procedure_date) ==
    IF ~(/\ adult(L)
         /\ (is_surgical(L) \/ is_medical(L))
         /\ has_any_procedure(L.proc_list, get_codes("ABDOMI15P_CODES")))
    THEN Excluded(Line("Population Exclusion", "Not surgical/medical DRG (>=18) or no abdominopelvic procedure", <<>>))
    ELSE IF index_procedure_date = <<>>
    THEN Excluded(Line("Exclusion", "Missing index abdominopelvic procedure date", <<>>))
    ELSE IF is_code_in_dx_list(
                L.dx_list,
                UNION {organ_systems[OrganSystem[k]].injury_codes : k \in 1..Len(OrganSystem)},
                "PRINCIPAL", "")
    THEN Excluded(Line("Exclusion", "Principal diagnosis of accidental puncture/laceration for any organ", <<>>))
    ELSE psi_15_organs(
             [k \in 1..Len(OrganSystem) |->
                 organ_analysis(L, OrganSystem[k], index_procedure_date)],
             classify_procedure_complexity_psi15(L.proc_list, index_procedure_date))

\* PSI 15 - abdominopelvic accidental puncture or laceration
psi_15(L) ==
    psi_15_indexed(L, get_first_procedure_date(L.proc_list, get_codes("ABDOMI15P_CODES")))

PSI_NAMES ==
    <<"PSI_05", "PSI_06", "PSI_07", "PSI_08", "PSI_09", "PSI_10",
      "PSI_11", "PSI_12", "PSI_13", "PSI_14", "PSI_15">>

\* the evaluator without its final `else`: an unknown psi_name returns the
\* initial status with nothing said
evaluate_psi_comprehensive_no_else(row, psi_name, validate_timing_) ==
    LET L == locals_of(row, validate_timing_)
        common == common_exclusions(row, L)
    IN IF common # <<>> THEN common[1]
       ELSE IF psi_name = "PSI_05" THEN psi_05(L)
       ELSE IF psi_name = "PSI_06" THEN psi_06(L)
       ELSE IF psi_name = "PSI_07" THEN psi_07(L)
       ELSE IF psi_name = "PSI_08" THEN psi_08(L)
       ELSE IF psi_name = "PSI_09" THEN psi_09(L)
       ELSE IF psi_name = "PSI_10" THEN psi_10(L)
       ELSE IF psi_name = "PSI_11" THEN psi_11(L)
       ELSE IF psi_name = "PSI_12" THEN psi_12(L)
       ELSE IF psi_name = "PSI_13" THEN psi_13(L)
       ELSE IF psi_name = "PSI_14" THEN psi_14(L)
       ELSE IF psi_name = "PSI_15" THEN psi_15(L)
       ELSE Return("Exclusion", <<>>, NoInfo)

\* The evaluator: the common exclusions, then the branch of psi_name.
evaluate_psi_comprehensive(row, psi_name, validate_timing_) ==
    LET L == locals_of(row, validate_timing_)
        common == common_exclusions(row, L)
    IN IF common # <<>> THEN common[1]
       ELSE IF psi_name = "PSI_05" THEN psi_05(L)
       ELSE IF psi_name = "PSI_06" THEN psi_06(L)
       ELSE IF psi_name = "PSI_07" THEN psi_07(L)
       ELSE IF psi_name = "PSI_08" THEN psi_08(L)
       ELSE IF psi_name = "PSI_09" THEN psi_09(L)
       ELSE IF psi_name = "PSI_10" THEN psi_10(L)
       ELSE IF psi_name = "PSI_11" THEN psi_11(L)
       ELSE IF psi_name = "PSI_12" THEN psi_12(L)
       ELSE IF psi_name = "PSI_13" THEN psi_13(L)
       ELSE IF psi_name = "PSI_14" THEN psi_14(L)
       ELSE IF psi_name = "PSI_15" THEN psi_15(L)
       ELSE Return("Exclusion",
                   <<Line("", "PSI " \o psi_name \o " logic not yet fully implemented or recognized.", <<>>)>>,
                   NoInfo)

-----------------------------------------------------------------------------
(* The batch driver: for psi in selected_psis, for each row of df_input,   *)
(* evaluate, tally and append a result record; an exception of the         *)
(* evaluator leaves both loops for the top-level `except`.                 *)

psi_name_at(i) == selected_psis[i]
total_cases == Len(df_input)

\* a rationale list shared between calls: each record carries the lines of
\* the evaluation before it
result_record_carried(row_idx, psi, r) ==
    [ Row |-> row_idx, PSI |-> psi, Status |-> r.status,
      Rationale |-> (IF detailed_results = <<>> THEN <<>>
                     ELSE detailed_results[Len(detailed_results)].Rationale) \o r.rationale,
      Detail |-> r.detailed_info ]

result_record(row_idx, psi, r) ==
    [ Row |-> row_idx, PSI |-> psi, Status |-> r.status,
      Rationale |-> r.rationale, Detail |-> r.detailed_info ]

\* a row loop that stores a record for the included encounters only
ProcessRow_included_only ==
    /\ pc = "rows"
    /\ psi_i <= Len(selected_psis)
    /\ idx <= total_cases
    /\ LET r == evaluate_psi_comprehensive(df_input[idx], psi_name_at(psi_i), validate_timing)
       IN IF r.raised # ""
          THEN /\ pc' = "failed"
               /\ UNCHANGED <<idx, inclusions, exclusions, detailed_results>>
          ELSE /\ inclusions' = IF r.status = "Inclusion" THEN inclusions + 1 ELSE inclusions
               /\ exclusions' = IF r.status = "Inclusion" THEN exclusions ELSE exclusions + 1
               /\ detailed_results' =
                      IF r.status = "Inclusion"
                      THEN Append(detailed_results, result_record(idx, psi_name_at(psi_i), r))
                      ELSE detailed_results
               /\ idx' = idx + 1
               /\ pc' = pc
    /\ UNCHANGED <<df_input, selected_psis, validate_timing, psi_i, all_psi_results>>

\* one iteration of `for idx, row in df_input.iterrows()`
ProcessRow ==
    /\ pc = "rows"
    /\ psi_i <= Len(selected_psis)
    /\ idx <= total_cases
    /\ LET r == evaluate_psi_comprehensive(df_input[idx], psi_name_at(psi_i), validate_timing)
       IN IF r.raised # ""
          THEN /\ pc' = "failed"
               /\ UNCHANGED <<idx, inclusions, exclusions, detailed_results>>
          ELSE /\ inclusions' = IF r.status = "Inclusion" THEN inclusions + 1 ELSE inclusions
               /\ exclusions' = IF r.status = "Inclusion" THEN exclusions ELSE exclusions + 1
               /\ detailed_results' =
                      Append(detailed_results, result_record(idx, psi_name_at(psi_i), r))
               /\ idx' = idx + 1
               /\ pc' = pc
    /\ UNCHANGED <<df_input, selected_psis, validate_timing, psi_i, all_psi_results>>

\* after the row loop: the metrics of this PSI, then the next PSI
FinishPsi ==
    /\ pc = "rows"
    /\ psi_i <= Len(selected_psis)
    /\ idx > total_cases
    /\ all_psi_results' =
           Append(all_psi_results,
                  [ PSI |-> psi_name_at(psi_i), total_cases |-> total_cases,
                    inclusions |-> inclusions, exclusions |-> exclusions,
                    rate_num |-> IF total_cases > 0 THEN inclusions * 1000 ELSE 0,
                    rate_den |-> IF total_cases > 0 THEN total_cases ELSE 1,
                    results |-> detailed_results ])
    /\ psi_i' = psi_i + 1
    /\ idx' = 1
    /\ inclusions' = 0
    /\ exclusions' = 0
    /\ detailed_results' = <<>>
    /\ pc' = IF psi_i + 1 > Len(selected_psis) THEN "done" ELSE "rows"
    /\ UNCHANGED <<df_input, selected_psis, validate_timing>>

Next == ProcessRow \/ FinishPsi

\* the driver's state before the first PSI, for a given input
Start(frame, psis, timing) ==
    /\ df_input = frame
    /\ selected_psis = psis
    /\ validate_timing = timing
    /\ psi_i = 1
    /\ idx = 1
    /\ inclusions = 0
    /\ exclusions = 0
    /\ detailed_results = <<>>
    /\ all_psi_results = <<>>
    /\ pc = "rows"

-----------------------------------------------------------------------------
(* The modelled inputs.  Every input row is a baseline encounter of the    *)
(* PSI's population (an adult, elective, surgical-DRG stay admitted on     *)
(* day 1 with its first procedure on day 2) in which some groups of cells  *)
(* are overridden.  An override is a sequence of <<column, slot, cell>>    *)
(* (slot 0 for a column read once); a dimension is a sequence of           *)
(* alternative overrides.                                                  *)

Day(n) == Int_(n)
AllNaNS(slots) == [i \in slots |-> NaNS]
AllNoneS(slots) == [i \in slots |-> NoneS]

baseline ==
    [ Age |-> Int_(70), SEX |-> S1("F"), DQTR |-> Int_(1), YEAR |-> Int_(2024),
      DRG |-> NoneN, MS_DRG |-> Int_(470), ATYPE |-> Int_(3), MDC |-> Int_(8),
      admission_date |-> Day(1), Admission_Date |-> NoneN,
      length_of_stay |-> Int_(5), Length_of_stay |-> NoneN,
      DX |-> [AllNaNS(DxSlots) EXCEPT ![1] = dxI10],
      POA |-> [AllNaNS(DxSlots) EXCEPT ![1] = S1("Y")],
      Pdx |-> NoneS,
      Sdx |-> AllNoneS(SdxSlots),
      POA_Sdx |-> AllNoneS(SdxSlots),
      Proc |-> AllNaNS(ProcSlots),
      Proc_Date |-> [i \in ProcSlots |-> NaNN],
      Proc_Time |-> AllNoneS(ProcSlots) ]

set_cell(row, a) ==
    IF a[2] = 0 THEN [row EXCEPT ![a[1]] = a[3]]
    ELSE [row EXCEPT ![a[1]] = [@ EXCEPT ![a[2]] = a[3]]]

RECURSIVE override(_, _)
override(row, o) ==
    IF o = <<>> THEN row ELSE override(set_cell(row, Head(o)), Tail(o))

Cell(column, v) == << <<column, 0, v>> >>
Dx1(code) == << <<"DX", 1, code>> >>
Dx(slot, code, poa) == << <<"DX", slot, code>>, <<"POA", slot, S1(poa)>> >>
Pr(slot, code, date) == << <<"Proc", slot, code>>, <<"Proc_Date", slot, date>> >>
PrAt(slot, code, date, time) == Pr(slot, code, date) \o << <<"Proc_Time", slot, time>> >>

\* the rows that override at most k dimensions of row
RECURSIVE Rows(_, _, _)
Rows(dims, k, row) ==
    IF dims = <<>> THEN {row}
    ELSE Rows(Tail(dims), k, row)
         \cup (IF k > 0
               THEN UNION {Rows(Tail(dims), k - 1, override(row, Head(dims)[j])) :
                             j \in 1..Len(Head(dims))}
               ELSE {})

\* the baseline of each PSI: the procedure its population asks for
BaseOf(psi) ==
    IF psi \in {"PSI_09", "PSI_10", "PSI_11", "PSI_12", "PSI_13"}
    THEN override(baseline, Pr(1, prOR1, Day(2)))
    ELSE IF psi = "PSI_14" THEN override(baseline, Pr(1, prABO, Day(2)))
    ELSE IF psi = "PSI_15" THEN override(baseline, Pr(1, prA15, Day(2)))
    ELSE baseline

\* the cells the common exclusions and the populations read
CommonDims ==
    << <<Cell("DRG", Int_(drgUngroupable)), Cell("DRG", Int_(470)), Cell("DRG", NaNN)>>,
       <<Cell("MS_DRG", NoneN), Cell("MS_DRG", Int_(291)), Cell("MS_DRG", Int_(100)),
         Cell("MS_DRG", Int_(drgUngroupable))>>,
       <<Cell("Age", NaNN), Cell("Age", Int_(17)), Cell("Age", Int_(18))>>,
       <<Cell("SEX", NaNS), Cell("SEX", S1(" ")), Cell("YEAR", NaNN), Cell("DQTR", NoneN)>>,
       <<Dx1(NaNS), Dx1(dxO80), Dx1(dxP07)>>,
       <<Cell("Pdx", dxI10), Cell("Pdx", dxO80)>>,
       <<Cell("ATYPE", Int_(1)), Cell("MDC", Int_(4))>>,
       <<Cell("length_of_stay", Int_(0)), Cell("length_of_stay", Int_(1)),
         Cell("length_of_stay", NaNN)>> >>

\* the admission date is blank
TimingDims == << <<Cell("admission_date", NaNN)>> >>

T0900 == <<"0","9","0","0">>
T1400 == <<"1","4",":","0","0",":","0","0">>

\* the diagnoses and procedures each PSI reads: the principal diagnosis,
\* DX2, DX3, Proc1, Proc2, Proc3
PsiDims(psi) ==
    IF psi = "PSI_05" THEN
        << <<Dx1(dxT81)>>,
           <<Dx(2, dxT81, "N"), Dx(2, dxT81, "Y"), Dx(2, dxT81, "U")>>,
           <<Dx(3, dxT81, "N"), Dx(3, dxT81, "Y")>> >>
    ELSE IF psi = "PSI_06" THEN
        << <<Dx1(dxJ93)>>,
           <<Dx(2, dxJ95, "N"), Dx(2, dxJ95, "Y"), Dx(2, dxJ93, "Y"), Dx(2, dxJ93, "N")>>,
           <<Dx(3, dxS27, "N"), Dx(3, dxJ90, "N"), Dx(3, dxJ95, "N")>>,
           <<Pr(1, prTHO, Day(2)), Pr(1, prCAR, Day(2))>> >>
    ELSE IF psi = "PSI_07" THEN
        << <<Dx1(dxT80)>>,
           <<Dx(2, dxT80, "N"), Dx(2, dxT80, "Y")>>,
           <<Dx(3, dxC34, "N"), Dx(3, dxD80, "N"), Dx(3, dxT80, "N")>>,
           <<Pr(1, prIMM, Day(2))>> >>
    ELSE IF psi = "PSI_08" THEN
        << <<Dx1(dxS52), Dx1(dxS72)>>,
           <<Dx(2, dxS72, "N"), Dx(2, dxS72, "Y"), Dx(2, dxS52, "N"), Dx(2, dxS52, "Y")>>,
           <<Dx(3, dxS52, "N"), Dx(3, dxS72, "N"), Dx(3, dxM97, "N")>> >>
    ELSE IF psi = "PSI_09" THEN
        << <<Dx1(dxD78), Dx1(dxD69)>>,
           <<Dx(2, dxD78, "N"), Dx(2, dxD78, "Y"), Dx(2, dxD68, "N")>>,
           <<Dx(3, dxD69, "Y"), Dx(3, dxD69, "N")>>,
           <<Pr(1, prHEO, Day(2)), Pr(1, prOR1, NaNN), PrAt(1, prOR1, Day(2), T0900)>>,
           <<Pr(2, prHEM, Day(1)), Pr(2, prHEM, Day(2)), Pr(2, prHEM, Day(3)),
             Pr(2, prHEM, NaNN), PrAt(2, prHEM, Day(2), T1400)>>,
           <<Pr(3, prTLY, Day(3)), Pr(3, prTLY, Day(4)), Pr(3, prOR2, Day(3))>> >>
    ELSE IF psi = "PSI_10" THEN
        << <<Dx1(dxN17), Dx1(dxI46), Dx1(dxN18), Dx1(dxN13)>>,
           <<Dx(2, dxN17, "N"), Dx(2, dxN17, "Y"), Dx(2, dxR57, "Y"), Dx(2, dxN18, "Y")>>,
           <<Dx(3, dxZ90, "Y"), Dx(3, dxZ90, "N")>>,
           <<Pr(1, prOR1, NaNN)>>,
           <<Pr(2, prDIA, Day(1)), Pr(2, prDIA, Day(2)), Pr(2, prDIA, Day(3)),
             Pr(2, prDIA, NaNN)>>,
           <<Pr(3, prDI2, Day(2)), Pr(3, prDI2, Day(3)), Pr(3, prNEP, Day(2))>> >>
    ELSE IF psi = "PSI_11" THEN
        << <<Dx1(dxJ96), Dx1(dxZ93)>>,
           <<Dx(2, dxJ9P, "N"), Dx(2, dxJ9P, "Y"), Dx(2, dxJ96, "Y"), Dx(2, dxZ93, "Y")>>,
           <<Dx(3, dxT88, "N"), Dx(3, dxG70, "Y"), Dx(3, dxG30, "Y"), Dx(3, dxG70, "N")>>,
           <<Pr(1, prTRO, Day(2)), Pr(1, prOR1, NaNN), PrAt(1, prOR1, Day(2), T1400)>>,
           <<Pr(2, prTRA, Day(1)), Pr(2, prTRA, Day(3)), PrAt(2, prTRA, Day(2), T0900),
             Pr(2, pr972, Day(2)), Pr(2, pr972, Day(1)), Pr(2, pr971, Day(4)),
             Pr(2, pr971, Day(3)), Pr(2, pr904, Day(3)), Pr(2, pr904, Day(2))>>,
           <<Pr(3, prNUC, Day(2)), Pr(3, prOR2, Day(3)), Pr(3, pr972, NaNN)>> >>
    ELSE IF psi = "PSI_12" THEN
        << <<Dx1(dxI82), Dx1(dxI26)>>,
           <<Dx(2, dxI82, "N"), Dx(2, dxI26, "N"), Dx(2, dxI82, "Y")>>,
           <<Dx(3, dxD75, "N"), Dx(3, dxS06, "Y"), Dx(3, dxS06, "N")>>,
           <<Pr(1, prVEO, Day(2)), Pr(1, prOR1, Day(10)), Pr(1, prOR1, Day(11)),
             PrAt(1, prOR1, Day(10), T1400), PrAt(1, prOR1, Day(11), T0900),
             Pr(1, prOR1, NaNN)>>,
           <<Pr(2, prVEN, Day(1)), Pr(2, prVEN, Day(2)), Pr(2, prVEN, Day(3)),
             Pr(2, prTHR, Day(2)), Pr(2, prTHR, Day(3))>>,
           <<Pr(3, prECM, Day(2)), Pr(3, prOR2, Day(3))>> >>
    ELSE IF psi = "PSI_13" THEN
        << <<Dx1(dxA41), Dx1(dxA49)>>,
           <<Dx(2, dxA41, "N"), Dx(2, dxA41, "Y"), Dx(2, dxA49, "Y")>>,
           <<Dx(3, dxB20, "U"), Dx(3, dxB20, "N"), Dx(3, dxZ94, "N"), Dx(3, dxC91, "N")>>,
           <<Pr(1, prOR1, Day(10)), Pr(1, prOR1, Day(11)), Pr(1, prOR1, NaNN)>>,
           <<Pr(2, prCHE, Day(2)), Pr(2, prRAD, Day(2))>> >>
    ELSE IF psi = "PSI_14" THEN
        << <<Dx1(dxT89)>>,
           <<Dx(2, dxT89, "N"), Dx(2, dxT89, "Y")>>,
           <<Pr(1, prABX, Day(2)), Pr(1, prABO, NaNN)>>,
           <<Pr(2, prREC, Day(1)), Pr(2, prREC, Day(2)), Pr(2, prREC, Day(3)),
             Pr(2, prREC, NaNN)>>,
           <<Pr(3, prABX, Day(3)), Pr(3, prABX, Day(4)), Pr(3, prREC, Day(4))>> >>
    ELSE IF psi = "PSI_15" THEN
        << <<Dx1(dxK91)>>,
           <<Dx(2, dxK91, "N"), Dx(2, dxK91, "Y"), Dx(2, dxE36, "N"), Dx(2, dxN99, "N")>>,
           <<Dx(3, dxE36, "N"), Dx(3, dxE36, "Y"), Dx(3, dxK91, "Y"), Dx(3, dxK91, "N")>>,
           <<Pr(1, prA15, NaNN), PrAt(1, prA15, Day(2), T1400)>>,
           <<Pr(2, prSPL, Day(2)), Pr(2, prSPL, Day(3)), Pr(2, prSPL, Day(32)),
             Pr(2, prSPL, Day(33)), Pr(2, prSPL, NaNN), PrAt(2, prSPL, Day(3), T0900),
             Pr(2, prADR, Day(3))>>,
           <<Pr(3, prADR, Day(3)), Pr(3, prADR, Day(33)), Pr(3, prSPL, Day(3)),
             Pr(3, prGU, Day(3))>> >>
    ELSE <<>>

\* every PSI, each with the rows that override at most MaxEdits dimensions
AllRows(psi) == Rows(CommonDims \o TimingDims \o PsiDims(psi), MaxEdits, BaseOf(psi))

\* one PSI, with every combination of its own dimensions
FullRows(psi) ==
    LET dims == TimingDims \o PsiDims(psi) IN Rows(dims, Len(dims), BaseOf(psi))

PsiSet == {PSI_NAMES[k] : k \in 1..Len(PSI_NAMES)}

Init ==
    \E psi \in PsiSet : \E row \in AllRows(psi) : \E timing \in BOOLEAN :
        Start(<<row>>, <<psi>>, timing)

Spec == Init /\ [][Next]_vars

\* the diagnoses and procedures that put the baseline in each PSI's numerator
NumeratorOf(psi) ==
    IF psi = "PSI_05" THEN Dx(2, dxT81, "N")
    ELSE IF psi = "PSI_06" THEN Dx(2, dxJ95, "N")
    ELSE IF psi = "PSI_07" THEN Dx(2, dxT80, "N")
    ELSE IF psi = "PSI_08" THEN Dx(2, dxS72, "N")
    ELSE IF psi = "PSI_09" THEN Dx(2, dxD78, "N") \o Pr(2, prHEM, Day(3)) \o Pr(3, prOR2, Day(2))
    ELSE IF psi = "PSI_10" THEN Dx(2, dxN17, "N") \o Pr(2, prDIA, Day(3))
    ELSE IF psi = "PSI_11" THEN Dx(2, dxJ9P, "N")
    ELSE IF psi = "PSI_12" THEN Dx(2, dxI82, "N")
    ELSE IF psi = "PSI_13" THEN Dx(2, dxA41, "N")
    ELSE IF psi = "PSI_14" THEN Dx(2, dxT89, "N") \o Pr(2, prREC, Day(3))
    ELSE IF psi = "PSI_15" THEN Dx(2, dxK91, "N") \o Pr(2, prSPL, Day(3))
    ELSE <<>>

IncludedBase(psi) == override(BaseOf(psi), NumeratorOf(psi))

\* every PSI on a numerator encounter whose common-gate cells are overridden
GateRows(psi) == Rows(CommonDims \o TimingDims, MaxEdits, IncludedBase(psi))

InitGate ==
    \E psi \in PsiSet : \E row \in GateRows(psi) : \E timing \in BOOLEAN :
        Start(<<row>>, <<psi>>, timing)

SpecGate == InitGate /\ [][Next]_vars

\* PSI 09 and PSI 10 on every combination of their dimensions
InitTiming ==
    \E psi \in {"PSI_09", "PSI_10"} : \E row \in FullRows(psi) : \E timing \in BOOLEAN :
        Start(<<row>>, <<psi>>, timing)

SpecTiming == InitTiming /\ [][Next]_vars

InitPSI12 ==
    \E row \in FullRows("PSI_12") : \E timing \in BOOLEAN :
        Start(<<row>>, <<"PSI_12">>, timing)

SpecPSI12 == InitPSI12 /\ [][Next]_vars

InitPSI15 ==
    \E row \in FullRows("PSI_15") : \E timing \in BOOLEAN :
        Start(<<row>>, <<"PSI_15">>, timing)

SpecPSI15 == InitPSI15 /\ [][Next]_vars

-----------------------------------------------------------------------------
(* The properties.  Each is stated over the results the driver has         *)
(* recorded for the rows it has evaluated.                                 *)

Recorded == 1..Len(detailed_results)
RowOf(k) == df_input[detailed_results[k].Row]
StatusOf(row, psi, timing) == evaluate_psi_comprehensive(row, psi, timing).status

ExclusionPrefixes == {"Exclusion", "Population Exclusion", "Age Exclusion", "Data Quality"}
exclusion_lines(rationale) == SelectSeq(rationale, LAMBDA l : l[1] \in ExclusionPrefixes)

\* C1: every result carries one of the three statuses, and Exclusion is
\* reported only when some population or exclusion gate failed: an encounter
\* that passes every gate and misses the numerator is Denominator-only.
C1_ThreeStatuses ==
    \A k \in Recorded :
        /\ detailed_results[k].Status \in {"Exclusion", "Inclusion", "Denominator-only"}
        /\ detailed_results[k].Status = "Exclusion"
               => exclusion_lines(detailed_results[k].Rationale) # <<>>

\* C2: a result whose status is Inclusion has no exclusion line in its
\* rationale, also for PSI 15 when one organ is blocked by a POA=Y injury
\* and another organ qualifies.
C2_InclusionHasNoExclusionLine ==
    \A k \in Recorded :
        detailed_results[k].Status = "Inclusion"
            => exclusion_lines(detailed_results[k].Rationale) = <<>>

\* C3: a result whose status is Exclusion has at most one exclusion line in
\* its rationale, also for PSI 15 when two or more organs each have a POA=Y
\* injury with a related procedure in the window.
C3_AtMostOneExclusionLine ==
    \A k \in Recorded :
        detailed_results[k].Status = "Exclusion"
            => Len(exclusion_lines(detailed_results[k].Rationale)) <= 1

\* C4: the evaluator never raises, so the batch is never aborted; in
\* particular for PSI 09 and PSI 10 with validate_timing on, no admission
\* date, and both the numerator diagnosis and the treatment procedure present.
C4_NeverRaises == pc # "failed"

\* the principal diagnosis of the normalised record, <<>> when there is none
principal_dx(L) ==
    LET hits == SelectSeq(L.dx_list, LAMBDA d : d[3] = "PRINCIPAL")
    IN IF hits = <<>> THEN <<>> ELSE <<hits[1][1]>>

\* the numbers of the common checks that hold for a row
gate_checks(row) ==
    LET L == locals_of(row, FALSE)
        p == principal_dx(L)
    IN {n \in 1..5 :
          \/ n = 1 /\ L.drg_value = <<drgUngroupable>>
          \/ n = 2 /\ \/ blankS(row.SEX) \/ blankN(row.Age)
                      \/ blankN(row.DQTR) \/ blankN(row.YEAR) \/ p = <<>>
          \/ n = 3 /\ p # <<>> /\ p[1] \in get_codes("MDC14PRINDX_CODES")
          \/ n = 4 /\ p # <<>> /\ p[1] \in get_codes("MDC15PRINDX_CODES")
          \/ n = 5 /\ ~blankN(row.Age) /\ row.Age.n < 18}

gate_line ==
    << <<"Data Quality", "Ungroupable DRG (999)">>,
       <<"Data Quality", "Missing required fields">>,
       <<"Population Exclusion", "Principal diagnosis in MDC 14 (Obstetric)">>,
       <<"Population Exclusion", "Principal diagnosis in MDC 15 (Neonatal)">>,
       <<"Age Exclusion", "Patient age < 18 years">> >>

lowest(checks) == CHOOSE n \in checks : \A m \in checks : n <= m

\* C5: for every PSI, when some of the five common checks hold the result is
\* Exclusion with exactly one rationale line, that of the lowest-numbered
\* check that holds, and with no details.
C5_CommonGateOrder ==
    \A k \in Recorded :
        LET checks == gate_checks(RowOf(k))
            r == detailed_results[k]
        IN checks # {} =>
             /\ r.Status = "Exclusion"
             /\ Len(r.Rationale) = 1
             /\ <<r.Rationale[1][1], r.Rationale[1][2]>> = gate_line[lowest(checks)]
             /\ r.Detail = NoInfo

\* the calendar day of the first dated procedure with a code of the set
first_proc_date(L, codes) ==
    LET d == get_first_procedure_date(L.proc_list, codes)
    IN IF d = <<>> THEN <<>> ELSE <<date_(d[1])>>

\* the PSI 12 exclusions that read procedures
psi12_procedure_exclusion(L) ==
    LET or_date == first_proc_date(L, get_codes("ORPROC_CODES"))
        venacip_date == first_proc_date(L, get_codes("VENACIP_CODES"))
        thromp_date == first_proc_date(L, get_codes("THROMP_CODES"))
        or_procs == {L.proc_list[j][1] : j \in 1..Len(L.proc_list)}
                        \cap get_codes("ORPROC_CODES")
    IN \/ venacip_date # <<>> /\ or_date # <<>> /\ venacip_date[1] <= or_date[1]
       \/ thromp_date # <<>> /\ or_date # <<>> /\ thromp_date[1] <= or_date[1]
       \/ or_procs # {}
            /\ or_procs \subseteq get_codes("VENACIP_CODES") \cup get_codes("THROMP_CODES")

\* C6: with validate_timing on, PSI 12 is never Inclusion when the first
\* vena cava interruption or the first thrombectomy is on or before the day
\* of the first OR procedure, or when every OR procedure is a vena cava
\* interruption or a thrombectomy, whether or not there is an admission date.
C6_InclusionPassedEveryGate ==
    \A k \in Recorded :
        (/\ validate_timing
         /\ detailed_results[k].PSI = "PSI_12"
         /\ detailed_results[k].Status = "Inclusion")
            => ~psi12_procedure_exclusion(locals_of(RowOf(k), validate_timing))

\* the same encounter with the value of DRG carried by MS-DRG instead
drg_as_ms_drg(row) == [row EXCEPT !.DRG = NoneN, !.MS_DRG = row.DRG]

\* C7: for every PSI, an encounter that carries an integer in DRG (MS-DRG
\* absent) and the encounter that carries the same integer in MS-DRG (DRG
\* absent) receive the same status.
C7_DrgFieldEquivalence ==
    \A k \in Recorded :
        (RowOf(k).DRG.tag = "int" /\ RowOf(k).MS_DRG = NoneN)
            => StatusOf(drg_as_ms_drg(RowOf(k)), detailed_results[k].PSI, validate_timing)
                   = detailed_results[k].Status

\* the same diagnoses supplied as Pdx, Sdx1.., POA_Sdx1.., the DX and POA
\* columns being left with the given blank cell
pdx_form(row, blank) ==
    [row EXCEPT !.Pdx = row.DX[1],
                !.Sdx = [j \in SdxSlots |-> row.DX[j + 1]],
                !.POA_Sdx = [j \in SdxSlots |-> row.POA[j + 1]],
                !.DX = [j \in DxSlots |-> blank],
                !.POA = [j \in DxSlots |-> blank]]

\* C8: for every PSI, an encounter that supplies its diagnoses as DX1.. with
\* POA1.. and the encounter that supplies the same codes and POA values as
\* Pdx, Sdx1.. with POA_Sdx1.. receive the same status, whether the DX
\* columns are absent or present and blank.
C8_DxFieldEquivalence ==
    \A k \in Recorded :
        (/\ ~blankS(RowOf(k).DX[1])
         /\ RowOf(k).Pdx = NoneS
         /\ \A j \in SdxSlots : RowOf(k).Sdx[j] = NoneS)
            => \A blank \in {NoneS, NaNS} :
                   StatusOf(pdx_form(RowOf(k), blank), detailed_results[k].PSI,
                            validate_timing)
                       = detailed_results[k].Status

\* the same encounter with the dates of the procedures in slots blanked
without_dates(row, slots) ==
    [row EXCEPT !.Proc_Date = [j \in ProcSlots |-> IF j \in slots THEN NaNN ELSE @[j]]]

\* C9: with validate_timing off, blanking procedure dates, the codes
\* unchanged, never changes the status, also for PSI 15.
C9_DatesIgnoredWithoutTiming ==
    \A k \in Recorded :
        ~validate_timing
            => \A slots \in SUBSET ProcSlots :
                   StatusOf(without_dates(RowOf(k), slots), detailed_results[k].PSI, FALSE)
                       = detailed_results[k].Status

\* the PSI 15 gates: the common gate, the population, the index date and
\* the principal diagnosis
passes_psi15_gates(row, L) ==
    /\ common_exclusions(row, L) = <<>>
    /\ adult(L) /\ (is_surgical(L) \/ is_medical(L))
    /\ has_any_procedure(L.proc_list, get_codes("ABDOMI15P_CODES"))
    /\ get_first_procedure_date(L.proc_list, get_codes("ABDOMI15P_CODES")) # <<>>
    /\ principal_dx(L) # <<>>
    /\ \A o \in DOMAIN organ_systems : principal_dx(L)[1] \notin organ_systems[o].injury_codes

\* an organ with a secondary POA=N injury, a related procedure in the
\* window, and no secondary POA=Y injury
organ_qualifies(L, o) ==
    LET secondary(poa) ==
            {L.dx_list[j][1] : j \in {j \in 1..Len(L.dx_list) :
                L.dx_list[j][3] = "SECONDARY" /\ L.dx_list[j][2] = poa}}
    IN /\ secondary(S1("N")) \cap organ_systems[o].injury_codes # {}
       /\ secondary(S1("Y")) \cap organ_systems[o].injury_codes = {}
       /\ related_procs_in_window(
              L.proc_list, organ_systems[o].procedure_codes,
              get_first_procedure_date(L.proc_list, get_codes("ABDOMI15P_CODES"))) # <<>>

FixedOrder ==
    <<"spleen", "adrenal", "vessel", "diaphragm", "gastrointestinal", "genitourinary">>

\* C10: for a PSI 15 encounter that passes the population, index-date and
\* principal-injury gates, the status is Inclusion exactly when some organ
\* qualifies, qualifying_organs lists the qualifying organs in the fixed
\* order, and the status is Denominator-only when no organ qualifies.
C10_Psi15OrganNumerator ==
    \A k \in Recorded :
        LET L == locals_of(RowOf(k), validate_timing)
            r == detailed_results[k]
            organs == SelectSeq(FixedOrder, LAMBDA o : organ_qualifies(L, o))
        IN (r.PSI = "PSI_15" /\ passes_psi15_gates(RowOf(k), L)) =>
             /\ r.Status = "Inclusion" <=> organs # <<>>
             /\ organs # <<>> => r.Detail["qualifying_organs"] = organs
             /\ organs = <<>> => r.Status = "Denominator-only"

\* the diagnoses of one position and POA value ("" for any)
dx_codes_at(L, position, poa) ==
    {L.dx_list[j][1] : j \in {j \in 1..Len(L.dx_list) :
        /\ position \in {"", L.dx_list[j][3]}
        /\ poa \in {<<>>, L.dx_list[j][2]}}}

\* a PSI 09 encounter of the population that no diagnosis excludes
psi09_reaches_timing(row, L) ==
    /\ common_exclusions(row, L) = <<>>
    /\ adult(L) /\ is_surgical(L)
    /\ has_any_procedure(L.proc_list, get_codes("ORPROC_CODES"))
    /\ dx_codes_at(L, "PRINCIPAL", <<>>) \cap get_codes("POHMRI2D_CODES") = {}
    /\ dx_codes_at(L, "SECONDARY", S1("Y")) \cap get_codes("POHMRI2D_CODES") = {}
    /\ dx_codes_at(L, "", <<>>) \cap get_codes("COAGDID_CODES") = {}
    /\ dx_codes_at(L, "PRINCIPAL", <<>>) \cap get_codes("MEDBLEEDD_CODES") = {}
    /\ dx_codes_at(L, "SECONDARY", S1("Y")) \cap get_codes("MEDBLEEDD_CODES") = {}

\* C11: PSI 09 with validate_timing on, for an adult surgical encounter with
\* one OR procedure and a separate hemorrhage treatment dated before it, is Exclusion
\* with the 'hemorrhage treatment before first OR procedure' reason.
C11_HemorrhageTreatmentBeforeOr ==
    \A k \in Recorded :
        LET L == locals_of(RowOf(k), validate_timing)
            or_date == first_proc_date(L, get_codes("ORPROC_CODES"))
            hem_date == first_proc_date(L, get_codes("HEMOTH2P_CODES"))
        IN (/\ detailed_results[k].PSI = "PSI_09"
            /\ validate_timing
            /\ L.admit_date # <<>>
            /\ psi09_reaches_timing(RowOf(k), L)
            /\ count_procedures_of_type(L.proc_list, get_codes("ORPROC_CODES")) = 1
            /\ ~has_any_procedure(L.proc_list,
                    get_codes("ORPROC_CODES") \cap get_codes("HEMOTH2P_CODES"))
            /\ or_date # <<>> /\ hem_date # <<>> /\ hem_date[1] < or_date[1])
           => /\ detailed_results[k].Status = "Exclusion"
              /\ Len(detailed_results[k].Rationale) = 1
              /\ detailed_results[k].Rationale[1][1] = "Exclusion"
              /\ detailed_results[k].Rationale[1][2]
                     = "Hemorrhage treatment before first OR procedure"

InitPSI08 ==
    \E row \in FullRows("PSI_08") : \E timing \in BOOLEAN :
        Start(<<row>>, <<"PSI_08">>, timing)

SpecPSI08 == InitPSI08 /\ [][Next]_vars

\* a PSI 08 encounter that passes the common gate and every PSI 08 gate
passes_psi08_gates(row, L) ==
    /\ common_exclusions(row, L) = <<>>
    /\ adult(L) /\ (is_surgical(L) \/ is_medical(L))
    /\ dx_codes_at(L, "PRINCIPAL", <<>>) \cap get_codes("FXID_CODES") = {}
    /\ dx_codes_at(L, "SECONDARY", S1("Y")) \cap get_codes("FXID_CODES") = {}
    /\ dx_codes_at(L, "", <<>>) \cap get_codes("PROSFXID_CODES") = {}

has_hip_fracture(L) ==
    dx_codes_at(L, "SECONDARY", S1("N")) \cap get_codes("HIPFXID_CODES") # {}

has_other_fracture(L) ==
    (dx_codes_at(L, "SECONDARY", S1("N")) \cap get_codes("FXID_CODES"))
        \ get_codes("HIPFXID_CODES") # {}

fracture_type_of(r) ==
    IF "fracture_type" \in DOMAIN r.Detail THEN r.Detail["fracture_type"] ELSE ""

\* C12: for a PSI 08 encounter that passes every gate, a secondary POA=N hip
\* fracture gives Inclusion with fracture_type hip_fracture whatever other
\* fractures there are, and other_fracture is reported exactly when there is
\* no such hip fracture and there is a secondary POA=N fracture outside
\* HIPFXID.
C12_FractureHierarchy ==
    \A k \in Recorded :
        LET L == locals_of(RowOf(k), validate_timing)
            r == detailed_results[k]
        IN (r.PSI = "PSI_08" /\ passes_psi08_gates(RowOf(k), L)) =>
             /\ has_hip_fracture(L)
                    => r.Status = "Inclusion" /\ fracture_type_of(r) = "hip_fracture"
             /\ fracture_type_of(r) = "other_fracture"
                    <=> ~has_hip_fracture(L) /\ has_other_fracture(L)
             /\ fracture_type_of(r) = "other_fracture" => r.Status = "Inclusion"

\* a hip fracture and another fracture together, reported as hip_fracture
C12_Witness ==
    \E k \in Recorded :
        LET L == locals_of(RowOf(k), validate_timing)
        IN /\ detailed_results[k].PSI = "PSI_08"
           /\ passes_psi08_gates(RowOf(k), L)
           /\ has_hip_fracture(L) /\ has_other_fracture(L)
           /\ fracture_type_of(detailed_results[k]) = "hip_fracture"

\* the calendar days from the admission date to the first dated OR procedure
or_day_offset(L) ==
    first_proc_date(L, get_codes("ORPROC_CODES"))[1] - date_(L.admit_date[1])

has_or_day_offset(L) ==
    L.admit_date # <<>> /\ first_proc_date(L, get_codes("ORPROC_CODES")) # <<>>

day10_text == "First OR procedure on/after 10th day of admission"

\* C13: with validate_timing on and an admission date, a PSI 12 encounter
\* whose first OR procedure is 10 or more calendar days after admission is
\* never Inclusion, and an offset of 9 days or fewer does not give the
\* day-10 exclusion.
C13_Psi12DayTen ==
    \A k \in Recorded :
        LET L == locals_of(RowOf(k), validate_timing)
            r == detailed_results[k]
        IN (r.PSI = "PSI_12" /\ validate_timing /\ has_or_day_offset(L)) =>
             /\ or_day_offset(L) >= 10 => r.Status # "Inclusion"
             /\ or_day_offset(L) <= 9
                    => \A j \in 1..Len(r.Rationale) : r.Rationale[j][2] # day10_text

\* an offset of exactly 10 days with a DVT/PE diagnosis, excluded by the rule
C13_Witness ==
    \E k \in Recorded :
        LET L == locals_of(RowOf(k), validate_timing)
            r == detailed_results[k]
        IN /\ r.PSI = "PSI_12" /\ validate_timing /\ has_or_day_offset(L)
           /\ or_day_offset(L) = 10
           /\ dx_codes_at(L, "SECONDARY", S1("N"))
                  \cap (get_codes("DEEPVIB_CODES") \cup get_codes("PULMOID_CODES")) # {}
           /\ r.Status = "Exclusion"
           /\ r.Rationale[1][2] = day10_text

InitPSI14 ==
    \E row \in FullRows("PSI_14") : \E timing \in BOOLEAN :
        Start(<<row>>, <<"PSI_14">>, timing)

SpecPSI14 == InitPSI14 /\ [][Next]_vars

\* an encounter of the PSI 14 population that the common gate lets through
in_psi14_population(row, L) ==
    /\ common_exclusions(row, L) = <<>>
    /\ adult(L)
    /\ has_any_procedure(L.proc_list,
           get_codes("ABDOMIPOPEN_CODES") \cup get_codes("ABDOMIPOTHER_CODES"))

expected_stratum(L) ==
    IF has_any_procedure(L.proc_list, get_codes("ABDOMIPOPEN_CODES"))
    THEN "open_approach" ELSE "non_open_approach"

\* a reclosure dated after the abdominal procedures, a wound disruption
\* diagnosis POA=N and no other, and a stay of 5 days
psi14_dehiscence_scenario(L) ==
    LET abdom_date == first_proc_date(L, get_codes("ABDOMIPOPEN_CODES")
                                             \cup get_codes("ABDOMIPOTHER_CODES"))
        all_abdom == {L.proc_list[j] : j \in {j \in 1..Len(L.proc_list) :
                         L.proc_list[j][1] \in get_codes("ABDOMIPOPEN_CODES")
                                                   \cup get_codes("ABDOMIPOTHER_CODES")}}
        all_reclo == {L.proc_list[j] : j \in {j \in 1..Len(L.proc_list) :
                         L.proc_list[j][1] \in get_codes("RECLOIP_CODES")}}
    IN /\ all_reclo # {}
       /\ \A p \in all_reclo \cup all_abdom : p[2] # <<>>
       /\ \A p \in all_reclo : \A q \in all_abdom : date_(p[2][1]) > date_(q[2][1])
       /\ dx_codes_at(L, "SECONDARY", S1("N")) \cap get_codes("ABWALLCD_CODES") # {}
       /\ dx_codes_at(L, "SECONDARY", S1("Y")) \cap get_codes("ABWALLCD_CODES") = {}
       /\ dx_codes_at(L, "PRINCIPAL", <<>>) \cap get_codes("ABWALLCD_CODES") = {}
       /\ L.length_of_stay = Int_(5)

\* C14: every encounter of the PSI 14 population carries details.stratum,
\* open_approach when any procedure is in ABDOMIPOPEN and non_open_approach
\* otherwise, and the dehiscence scenario is Inclusion.
C14_Psi14Stratum ==
    \A k \in Recorded :
        LET L == locals_of(RowOf(k), validate_timing)
            r == detailed_results[k]
        IN (r.PSI = "PSI_14" /\ in_psi14_population(RowOf(k), L)) =>
             /\ "stratum" \in DOMAIN r.Detail
             /\ r.Detail["stratum"] = expected_stratum(L)
             /\ psi14_dehiscence_scenario(L) => r.Status = "Inclusion"

\* an adult whose principal diagnosis is obstetric, whose MS-DRG is neither
\* surgical nor medical, and for whom no other common check holds
adult_obstetric_case(row, L) ==
    /\ gate_checks(row) \subseteq {3}
    /\ adult(L)
    /\ dx_codes_at(L, "PRINCIPAL", <<>>) \cap get_codes("MDC14PRINDX_CODES") # {}
    /\ ~is_surgical(L) /\ ~is_medical(L)

\* a secondary numerator diagnosis POA=N and none of the diagnosis exclusions
numerator_dx_case(L, codes) ==
    /\ dx_codes_at(L, "SECONDARY", S1("N")) \cap codes # {}
    /\ dx_codes_at(L, "SECONDARY", S1("Y")) \cap codes = {}
    /\ dx_codes_at(L, "PRINCIPAL", <<>>) \cap codes = {}

psi07_no_other_exclusion(row, L) ==
    /\ row.length_of_stay.tag = "int" /\ row.length_of_stay.n >= 2
    /\ dx_codes_at(L, "", <<>>) \cap (get_codes("CANCEID_CODES") \cup get_codes("IMMUNID_CODES")) = {}
    /\ ~has_any_procedure(L.proc_list, get_codes("IMMUNIP_CODES"))

\* C15: for PSI_05 and PSI_07 an adult obstetric encounter outside the
\* surgical and medical MS-DRGs is in the population: with a secondary
\* numerator diagnosis POA=N and no exclusion it is Inclusion.
C15_ObstetricPopulation ==
    \A k \in Recorded :
        LET row == RowOf(k)
            L == locals_of(row, validate_timing)
            r == detailed_results[k]
        IN /\ (r.PSI = "PSI_05" /\ adult_obstetric_case(row, L)
                 /\ numerator_dx_case(L, get_codes("FOREIID_CODES")))
              => r.Status = "Inclusion"
           /\ (r.PSI = "PSI_07" /\ adult_obstetric_case(row, L)
                 /\ numerator_dx_case(L, get_codes("IDTMC3D_CODES"))
                 /\ psi07_no_other_exclusion(row, L))
              => r.Status = "Inclusion"

\* C16: for PSI_07 and PSI_14 an encounter with a known length of stay
\* strictly under 2 days, 0 included, is Exclusion and never Inclusion.
C16_ShortStayExcluded ==
    \A k \in Recorded :
        LET row == RowOf(k)
            r == detailed_results[k]
        IN (r.PSI \in {"PSI_07", "PSI_14"}
              /\ row.length_of_stay.tag = "int" /\ row.length_of_stay.n < 2)
           => r.Status = "Exclusion"

\* batches: frames of BatchLen rows drawn, with repetition and in every
\* order, from a pool of encounters, run for two of three indicators
BatchPool ==
    {IncludedBase("PSI_05"), BaseOf("PSI_05"), IncludedBase("PSI_13"), IncludedBase("PSI_15")}

BatchPsis == {"PSI_05", "PSI_13", "PSI_15"}

InitBatch ==
    \E frame \in [1..BatchLen -> BatchPool] : \E p \in BatchPsis : \E q \in BatchPsis \ {p} :
        \E timing \in BOOLEAN : Start(frame, <<p, q>>, timing)

SpecBatch == InitBatch /\ [][Next]_vars

\* every result recorded so far in the run, as <<row contents, record>>
evaluations ==
    {<<df_input[detailed_results[k].Row], detailed_results[k]>> : k \in Recorded}
    \cup UNION {{<<df_input[all_psi_results[i].results[k].Row], all_psi_results[i].results[k]>> :
                    k \in 1..Len(all_psi_results[i].results)} : i \in 1..Len(all_psi_results)}

UnsupportedPsis == {"PSI_04", "PSI_16", "PSI_90", "psi_05"}

InitUnsupported ==
    \E psi \in UnsupportedPsis : \E row \in GateRows("PSI_05") : \E timing \in BOOLEAN :
        Start(<<row>>, <<psi>>, timing)

SpecUnsupported == InitUnsupported /\ [][Next]_vars

not_implemented_line(psi) ==
    <<"", "PSI " \o psi \o " logic not yet fully implemented or recognized.", <<>>>>

\* C18: for a psi_name outside PSI_05..PSI_15 the evaluator returns
\* Exclusion with a non-empty rationale; when no common exclusion applies
\* the rationale is the one 'not implemented or recognized' line and the
\* details are empty.
C18_UnsupportedPsi ==
    /\ pc # "failed"
    /\ \A k \in Recorded :
        LET row == RowOf(k)
            r == detailed_results[k]
        IN r.PSI \notin PsiSet =>
             /\ r.Status = "Exclusion"
             /\ r.Rationale # <<>>
             /\ common_exclusions(row, locals_of(row, validate_timing)) = <<>> =>
                  /\ r.Rationale = <<not_implemented_line(r.PSI)>>
                  /\ r.Detail = NoInfo

\* an encounter that would be in a numerator, evaluated under an unknown name
C18_Witness ==
    \E k \in Recorded :
        /\ detailed_results[k].PSI \in UnsupportedPsis
        /\ RowOf(k) = IncludedBase("PSI_05")
        /\ detailed_results[k].Rationale = <<not_implemented_line(detailed_results[k].PSI)>>

\* a procedure of the organ whose calendar date lies 1 to 30 days after the
\* calendar date of the index procedure
related_by_calendar_day(L, o) ==
    LET index == get_first_procedure_date(L.proc_list, get_codes("ABDOMI15P_CODES"))
    IN \E j \in 1..Len(L.proc_list) :
          /\ L.proc_list[j][1] \in organ_systems[o].procedure_codes
          /\ L.proc_list[j][2] # <<>>
          /\ date_(L.proc_list[j][2][1]) - date_(index[1]) \in 1..30

\* C19: for PSI_15 an organ has a related procedure in the window exactly
\* when one of its procedures is dated 1 to 30 calendar days after the
\* index date, whatever the clock times of the two procedures.
C19_Psi15WindowByCalendarDay ==
    \A k \in Recorded :
        LET row == RowOf(k)
            L == locals_of(row, validate_timing)
            r == detailed_results[k]
        IN (r.PSI = "PSI_15" /\ passes_psi15_gates(row, L)) =>
             \A o \in DOMAIN organ_systems :
                 r.Detail["organ_analysis_results"][o].has_related_proc_in_window
                     = related_by_calendar_day(L, o)

\* the rows of a PSI in which the admission date, the second diagnosis and
\* the three procedures vary
ProcedureRows(psi) ==
    Rows(TimingDims \o <<PsiDims(psi)[2], PsiDims(psi)[4], PsiDims(psi)[5], PsiDims(psi)[6]>>,
         5, BaseOf(psi))

InitSameDay ==
    \E psi \in {"PSI_09", "PSI_11"} : \E row \in ProcedureRows(psi) : \E timing \in BOOLEAN :
        Start(<<row>>, <<psi>>, timing)

SpecSameDay == InitSameDay /\ [][Next]_vars

\* the first procedure of codes and the first OR procedure are dated the
\* same calendar day
same_day_as_first_or(L, codes) ==
    /\ first_proc_date(L, codes) # <<>>
    /\ first_proc_date(L, codes) = first_proc_date(L, get_codes("ORPROC_CODES"))

has_line(rationale, text) == \E j \in 1..Len(rationale) : rationale[j][2] = text

\* C20: with validate_timing on, a hemorrhage treatment (PSI 09) or a
\* tracheostomy (PSI 11) on the calendar day of the first OR procedure is
\* not before it, whatever the clock times, and for PSI 09 not after it
\* either, so the encounter is not in the numerator.
C20_SameDayIsNeitherBeforeNorAfter ==
    \A k \in Recorded :
        LET L == locals_of(RowOf(k), validate_timing)
            r == detailed_results[k]
        IN /\ (r.PSI = "PSI_09" /\ validate_timing
                 /\ same_day_as_first_or(L, get_codes("HEMOTH2P_CODES")))
              => /\ ~has_line(r.Rationale, "Hemorrhage treatment before first OR procedure")
                 /\ r.Status # "Inclusion"
           /\ (r.PSI = "PSI_11" /\ validate_timing
                 /\ same_day_as_first_or(L, get_codes("TRACHIP_CODES")))
              => ~has_line(r.Rationale, "Tracheostomy procedure before first OR procedure")

ImmuneCategories ==
    {"severe_immune_compromise", "moderate_immune_compromise",
     "malignancy_with_treatment", "baseline_risk"}

\* C21: every encounter evaluated for PSI 13 reports details.risk_category,
\* one of the four immune categories, also when a common, population or
\* exclusion gate fired.
C21_Psi13RiskCategoryAlways ==
    \A k \in Recorded :
        detailed_results[k].PSI = "PSI_13" =>
            /\ "risk_category" \in DOMAIN detailed_results[k].Detail
            /\ detailed_results[k].Detail["risk_category"] \in ImmuneCategories

InitPSI13 ==
    \E row \in FullRows("PSI_13") : \E timing \in BOOLEAN :
        Start(<<row>>, <<"PSI_13">>, timing)

SpecPSI13 == InitPSI13 /\ [][Next]_vars

\* the immune category by priority, from the diagnoses of any position and
\* any POA value
immune_category_any_poa(L) ==
    LET dx == dx_codes_at(L, "", <<>>)
    IN IF dx \cap get_codes("SEVEREIMMUNED_CODES") # {} THEN "severe_immune_compromise"
       ELSE IF dx \cap get_codes("MODERATEIMMUNED_CODES") # {} THEN "moderate_immune_compromise"
       ELSE IF /\ dx \cap get_codes("MALIGNANCY_CODES") # {}
               /\ has_any_procedure(L.proc_list, get_codes("CHEMOTHERAPYP_CODES")
                                                     \cup get_codes("RADIATIONP_CODES"))
       THEN "malignancy_with_treatment"
       ELSE "baseline_risk"

\* C22: the PSI 13 risk category is severe when any diagnosis, whatever its
\* POA value, is in SEVEREIMMUNED, else moderate when any diagnosis is in
\* MODERATEIMMUNED, else malignancy_with_treatment when a malignancy comes
\* with chemotherapy or radiation, else baseline_risk.
C22_ImmunePriorityAnyPoa ==
    \A k \in Recorded :
        LET L == locals_of(RowOf(k), validate_timing)
            r == detailed_results[k]
        IN (r.PSI = "PSI_13" /\ "risk_category" \in DOMAIN r.Detail) =>
               r.Detail["risk_category"] = immune_category_any_poa(L)

\* PSI 15 encounters whose three procedures vary in code and day around the
\* index day
ComplexityDims ==
    << <<PrAt(1, prA15, Day(2), T1400), Pr(1, prA15, Day(3))>>,
       <<Pr(2, prSPL, Day(2)), Pr(2, prA15, Day(2)), Pr(2, prSPL, Day(3)),
         PrAt(2, prSPL, Day(2), T0900)>>,
       <<Pr(3, prSPL, Day(2)), Pr(3, prA15, Day(2)), Pr(3, prADR, Day(2)),
         Pr(3, prADR, Day(3))>>,
       <<Pr(4, prGU, Day(2)), Pr(4, prSPL, Day(2))>>,
       <<Pr(5, prSPL, Day(2)), Pr(5, prADR, NaNN)>> >>

InitComplexity ==
    \E row \in Rows(TimingDims \o ComplexityDims, 6, BaseOf("PSI_15")) : \E timing \in BOOLEAN :
        Start(<<row>>, <<"PSI_15">>, timing)

SpecComplexity == InitComplexity /\ [][Next]_vars

\* the distinct procedure codes dated on the calendar day of the index
\* procedure
distinct_on_index_day(L) ==
    LET index == get_first_procedure_date(L.proc_list, get_codes("ABDOMI15P_CODES"))
    IN {L.proc_list[j][1] : j \in {j \in 1..Len(L.proc_list) :
           /\ L.proc_list[j][2] # <<>>
           /\ index # <<>>
           /\ date_(L.proc_list[j][2][1]) = date_(index[1])}}

\* C23: the PSI 15 risk category counts the distinct procedure codes of the
\* index day: high_complexity from 5, moderate_complexity from 2, else
\* low_complexity; a code recorded twice on the index day counts once.
C23_Psi15ComplexityDistinct ==
    \A k \in Recorded :
        LET L == locals_of(RowOf(k), validate_timing)
            r == detailed_results[k]
            n == Cardinality(distinct_on_index_day(L))
        IN (r.PSI = "PSI_15" /\ "risk_category" \in DOMAIN r.Detail) =>
               r.Detail["risk_category"] =
                   IF n >= 5 THEN "high_complexity"
                   ELSE IF n >= 2 THEN "moderate_complexity"
                   ELSE "low_complexity"

\* the slots of the procedures dated on the calendar day of the index
\* procedure
slots_on_index_day(L) ==
    LET index == get_first_procedure_date(L.proc_list, get_codes("ABDOMI15P_CODES"))
    IN {j \in 1..Len(L.proc_list) :
           /\ L.proc_list[j][2] # <<>>
           /\ index # <<>>
           /\ date_(L.proc_list[j][2][1]) = date_(index[1])}

\* C23 as amended: the PSI 15 risk category counts the procedures recorded
\* on the index calendar day, a code recorded twice counting twice:
\* high_complexity from 5, moderate_complexity from 2, else low_complexity.
C23_Psi15ComplexityCount ==
    \A k \in Recorded :
        LET L == locals_of(RowOf(k), validate_timing)
            r == detailed_results[k]
            n == Cardinality(slots_on_index_day(L))
        IN (r.PSI = "PSI_15" /\ "risk_category" \in DOMAIN r.Detail) =>
               r.Detail["risk_category"] =
                   IF n >= 5 THEN "high_complexity"
                   ELSE IF n >= 2 THEN "moderate_complexity"
                   ELSE "low_complexity"

\* five procedures on the index day, two of them with the same code, at
\* different clock times: high_complexity
C23_Witness ==
    \E k \in Recorded :
        LET L == locals_of(RowOf(k), validate_timing)
        IN /\ detailed_results[k].PSI = "PSI_15"
           /\ Cardinality(slots_on_index_day(L)) = 5
           /\ Cardinality(distinct_on_index_day(L)) = 4
           /\ \E i \in 1..Len(L.proc_list) : \E j \in 1..Len(L.proc_list) :
                  L.proc_list[i][2] # L.proc_list[j][2]
           /\ "risk_category" \in DOMAIN detailed_results[k].Detail
           /\ detailed_results[k].Detail["risk_category"] = "high_complexity"

last_proc_date(L, codes) ==
    LET d == get_last_procedure_date(L.proc_list, codes)
    IN IF d = <<>> THEN <<>> ELSE <<date_(d[1])>>

\* a PSI 11 procedure criterion: the last procedure of codes dated d days or
\* more after the first OR procedure, or with timing off its mere presence
psi11_criterion(L, codes, d) ==
    IF L.validate_timing
    THEN /\ first_proc_date(L, get_codes("ORPROC_CODES")) # <<>>
         /\ last_proc_date(L, codes) # <<>>
         /\ last_proc_date(L, codes)[1] >= first_proc_date(L, get_codes("ORPROC_CODES"))[1] + d
    ELSE has_any_procedure(L.proc_list, codes)

psi11_numerator(L) ==
    \/ dx_codes_at(L, "SECONDARY", S1("N")) \cap get_codes("ACURF2D_CODES") # {}
    \/ psi11_criterion(L, get_codes("PR9672P_CODES"), 0)
    \/ psi11_criterion(L, get_codes("PR9671P_CODES"), 2)
    \/ psi11_criterion(L, get_codes("PR9604P_CODES"), 1)

\* C24: a PSI 11 encounter that no gate excluded is Inclusion exactly when
\* one of the four criteria holds: a secondary ACURF2D diagnosis POA=N, or a
\* last PR9672P, PR9671P, PR9604P date on or after the first OR date plus
\* 0, 2, 1 days; with timing off presence suffices for the three, and with
\* timing on and no dated OR procedure the three are false.
C24_Psi11Numerator ==
    \A k \in Recorded :
        LET L == locals_of(RowOf(k), validate_timing)
            r == detailed_results[k]
        IN (r.PSI = "PSI_11" /\ exclusion_lines(r.Rationale) = <<>>) =>
               (r.Status = "Inclusion" <=> psi11_numerator(L))

\* the PSI 11 encounter reaches the 'only OR procedure' test
psi11_reaches_only_or(row, L) ==
    /\ common_exclusions(row, L) = <<>>
    /\ adult(L) /\ is_surgical(L) /\ L.atype = Int_(3)
    /\ has_any_procedure(L.proc_list, get_codes("ORPROC_CODES"))
    /\ dx_codes_at(L, "PRINCIPAL", <<>>) \cap get_codes("ACURF3D_CODES") = {}
    /\ dx_codes_at(L, "SECONDARY", S1("Y")) \cap get_codes("ACURF3D_CODES") = {}
    /\ dx_codes_at(L, "", S1("Y")) \cap get_codes("TRACHID_CODES") = {}

every_or_is_tracheostomy(L) ==
    \A j \in 1..Len(L.proc_list) :
        L.proc_list[j][1] \in get_codes("ORPROC_CODES")
            => L.proc_list[j][1] \in get_codes("TRACHIP_CODES")

\* C25: the PSI 11 exclusion 'Only OR procedure is tracheostomy' fires
\* exactly when every OR procedure of the encounter is a tracheostomy
\* procedure.
C25_OnlyOrIsTracheostomy ==
    \A k \in Recorded :
        LET L == locals_of(RowOf(k), validate_timing)
            r == detailed_results[k]
        IN (r.PSI = "PSI_11" /\ psi11_reaches_only_or(RowOf(k), L)) =>
               (has_line(r.Rationale, "Only OR procedure is tracheostomy")
                   <=> every_or_is_tracheostomy(L))

\* PSI 05 encounters whose secondary diagnoses are written with periods,
\* lower case or blanks, or are blank
RegistryDims ==
    << <<Dx(2, <<"t", "8", ".", "2">>, "N"), Dx(2, <<"T", "8", "2">>, "N"),
         Dx(2, <<" ">>, "N"), Dx(2, <<" ", "t", "8", ".", "1", " ">>, "N")>>,
       <<Dx(3, <<"T", "8", "2">>, "Y"), Dx(3, <<>>, "N")>> >>

InitRegistry ==
    \E row \in Rows(RegistryDims \o CommonDims, MaxEdits, BaseOf("PSI_05")) :
        \E timing \in BOOLEAN : Start(<<row>>, <<"PSI_05">>, timing)

SpecRegistry == InitRegistry /\ [][Next]_vars

\* the codes of an appendix column, trimmed, uppercased, without periods,
\* the empty ones discarded
trimmed_codes(name) ==
    {clean_code(c) : c \in {c \in appendix_df[name] : c # NaNS}} \ {<<>>}

normalized_code(c) ==
    /\ c # <<>>
    /\ c = strip(c)
    /\ c = upper(c)
    /\ \A j \in 1..Len(c) : c[j] # "."

\* C26: every stored code is trimmed, uppercased, without '.', and not
\* empty, and an unknown name looks up the empty set; so a PSI 05 encounter
\* whose secondary POA=N diagnosis is an appendix FOREIID cell up to case,
\* periods and blanks is Inclusion, and no diagnosis entry has a blank code.
C26_RegistryNormalized ==
    \A k \in Recorded :
        LET row == RowOf(k)
            L == locals_of(row, validate_timing)
            r == detailed_results[k]
        IN /\ get_codes("NOSUCH_CODES") = {}
           /\ \A j \in 1..Len(L.dx_list) : L.dx_list[j][1] # <<>>
           /\ (/\ r.PSI = "PSI_05"
               /\ common_exclusions(row, L) = <<>>
               /\ is_surgical(L) \/ is_medical(L)
               /\ dx_codes_at(L, "SECONDARY", S1("N")) \cap trimmed_codes("FOREIID_CODES") # {}
               /\ dx_codes_at(L, "SECONDARY", S1("Y")) \cap trimmed_codes("FOREIID_CODES") = {}
               /\ dx_codes_at(L, "PRINCIPAL", <<>>) \cap trimmed_codes("FOREIID_CODES") = {})
              => /\ r.Status = "Inclusion"
                 /\ \A c \in get_codes("FOREIID_CODES") : normalized_code(c)

\* encounters whose code, POA, date and time cells are written loosely:
\* lower case, periods, blanks, alternate columns, unknown POA values, a
\* date that is no date
NormalizeDims ==
    << <<Dx1(<<" ", "i", "1", ".", "0">>), Dx1(<<" ">>), Dx1(NaNS)>>,
       <<Cell("Pdx", <<"o", "8", ".", "0", " ">>), Cell("Pdx", <<" ">>)>>,
       << <<<<"POA", 1, <<" ", "y", " ">>>>>>, <<<<"POA", 1, <<"1">>>>>>, <<<<"POA", 1, NoneS>>>> >>,
       <<Dx(2, <<"t", "8", ".", "1">>, "n"), Dx(2, <<" ">>, "N"), Dx(2, <<>>, "N")>>,
       << <<<<"Sdx", 1, <<"j", "9", "5", ".">>>>, <<"POA_Sdx", 1, <<"w">>>>>>,
          <<<<"Sdx", 1, <<"J", "9", "5">>>>, <<"POA_Sdx", 1, <<"X">>>>>> >>,
       <<Dx(3, <<"d", ".", "8", "0">>, "U"), Dx(3, <<"T", "8", "1">>, "E")>>,
       <<Pr(1, <<"0", "d", ".", "t">>, TextN), Pr(1, <<" ">>, Day(2)),
         PrAt(1, <<"0", "d", "t">>, Day(2), T0900)>>,
       <<Pr(3, <<"0", "b", "w", " ">>, NaNN), Pr(3, <<"0", "B", "W">>, TextN)>> >>

InitNormalize ==
    \E row \in Rows(NormalizeDims, 6, baseline) : \E timing \in BOOLEAN :
        Start(<<row>>, <<"PSI_05">>, timing)

SpecNormalize == InitNormalize /\ [][Next]_vars

PoaValues == {S1("Y"), S1("N"), S1("U"), S1("W"), <<>>}

\* the diagnosis slots and the procedure slots of a row whose code cell,
\* or for a diagnosis its alternate cell, is not blank
coded_dx_slots(row) ==
    {i \in DxSlots :
        \/ ~blankS(row.DX[i])
        \/ i = 1 /\ ~blankS(row.Pdx)
        \/ i > 1 /\ ~blankS(row.Sdx[i - 1])}

coded_proc_slots(row) == {i \in ProcSlots : ~blankS(row.Proc[i])}

\* C27: in the extracted lists every code is uppercase without '.'; every
\* POA is Y, N, U, W or empty; at most one entry is PRINCIPAL, with
\* sequence 1; SECONDARY entries have sequences in 2..30, strictly
\* increasing; blank codes are skipped; a procedure whose date does not
\* parse is kept, with a null timestamp.
C27_NormalizedRecord ==
    \A k \in Recorded :
        LET row == RowOf(k)
            dx == locals_of(row, validate_timing).dx_list
            pr == locals_of(row, validate_timing).proc_list
        IN /\ \A j \in 1..Len(dx) :
                 /\ dx[j][1] = upper(dx[j][1]) /\ dx[j][1] = replace_dot(dx[j][1])
                 /\ dx[j][2] \in PoaValues
                 /\ dx[j][3] = "PRINCIPAL" => (j = 1 /\ dx[j][4] = 1)
                 /\ dx[j][3] = "SECONDARY" => dx[j][4] \in 2..30
                 /\ dx[j][3] \in {"PRINCIPAL", "SECONDARY"}
                 /\ (j > 1 /\ dx[j - 1][3] = "SECONDARY") => dx[j - 1][4] < dx[j][4]
           /\ {dx[j][4] : j \in 1..Len(dx)} = coded_dx_slots(row)
           /\ \A j \in 1..Len(pr) :
                 /\ pr[j][1] = upper(pr[j][1]) /\ pr[j][1] = replace_dot(pr[j][1])
                 /\ row.Proc_Date[pr[j][3]].tag = "text" => pr[j][2] = <<NaT>>
                 /\ row.Proc_Date[pr[j][3]].tag \in {"None", "NaN"} => pr[j][2] = <<>>
           /\ {pr[j][3] : j \in 1..Len(pr)} = coded_proc_slots(row)

\* a row read from the alternate columns, with a lower-case dotted code, an
\* unknown POA turned empty, and a procedure kept without a timestamp
C27_Witness ==
    \E k \in Recorded :
        LET row == RowOf(k)
            dx == locals_of(row, validate_timing).dx_list
            pr == locals_of(row, validate_timing).proc_list
        IN /\ blankS(row.DX[1]) /\ row.Pdx = <<"o", "8", ".", "0", " ">>
           /\ row.POA_Sdx[1] = <<"X">>
           /\ Len(dx) = 3
           /\ dx[1] = <<dxO80, <<>>, "PRINCIPAL", 1>>
           /\ dx[2][2] = <<>>
           /\ dx[3] = <<<<"D", "8", "0">>, S1("U"), "SECONDARY", 3>>
           /\ row.Proc_Date[1].tag = "text"
           /\ \E j \in 1..Len(pr) : pr[j][3] = 1 /\ pr[j][1] = prOR1 /\ pr[j][2] = <<NaT>>
           /\ coded_proc_slots(row) # ProcSlots

\* batches of every length from none to BatchLen, among them encounters on
\* which the PSI 09 evaluation raises when timing is validated
TallyPool ==
    {IncludedBase("PSI_05"), BaseOf("PSI_05"), IncludedBase("PSI_09"),
     override(IncludedBase("PSI_09"), Cell("admission_date", NaNN))}

InitTally ==
    \E n \in 0..BatchLen : \E frame \in [1..n -> TallyPool] :
        \E p \in {"PSI_05", "PSI_09"} : \E q \in {"PSI_05", "PSI_09"} \ {p} :
            \E timing \in BOOLEAN : Start(frame, <<p, q>>, timing)

SpecTally == InitTally /\ [][Next]_vars

inclusion_count(results) ==
    Cardinality({k \in 1..Len(results) : results[k].Status = "Inclusion"})

\* C28: when the row loop of a PSI has ended, it has stored exactly one
\* result per input record, inclusions is the number of results with status
\* Inclusion, inclusions + exclusions = total_cases = the size of the
\* batch, and the rate is 1000 * inclusions / total_cases, or 0 for an
\* empty batch (no division by zero).
C28_BatchTally ==
    \A i \in 1..Len(all_psi_results) :
        LET t == all_psi_results[i]
        IN /\ t.total_cases = Len(df_input)
           /\ Len(t.results) = t.total_cases
           /\ \A k \in 1..Len(t.results) : t.results[k].Row = k /\ t.results[k].PSI = t.PSI
           /\ t.inclusions = inclusion_count(t.results)
           /\ t.inclusions + t.exclusions = t.total_cases
           /\ t.total_cases > 0 => (t.rate_num = 1000 * t.inclusions /\ t.rate_den = t.total_cases)
           /\ t.total_cases = 0 => (t.rate_num = 0 /\ t.rate_den # 0)

\* a finished PSI of a batch with included and excluded encounters
C28_Witness ==
    \E i \in 1..Len(all_psi_results) :
        LET t == all_psi_results[i]
        IN t.total_cases >= 2 /\ t.inclusions > 0 /\ t.exclusions > 0

\* a finished PSI of the empty batch
C28_WitnessEmpty ==
    /\ all_psi_results # <<>>
    /\ all_psi_results[1].total_cases = 0

\* the PSIs whose gates or numerator read validate_timing, on encounters
\* with and without an admission date, dated and undated procedures
InitMonotone ==
    \/ \E psi \in {"PSI_09", "PSI_10", "PSI_14"} : \E row \in FullRows(psi) :
           \E timing \in BOOLEAN : Start(<<row>>, <<psi>>, timing)
    \/ \E row \in ProcedureRows("PSI_11") :
           \E timing \in BOOLEAN : Start(<<row>>, <<"PSI_11">>, timing)

SpecMonotone == InitMonotone /\ [][Next]_vars

\* C29: an encounter that is an Inclusion with validate_timing on is an
\* Inclusion for the same PSI with validate_timing off.
C29_TimingMonotone ==
    \A k \in Recorded :
        (validate_timing /\ detailed_results[k].Status = "Inclusion") =>
            LET r == evaluate_psi_comprehensive(RowOf(k), detailed_results[k].PSI, FALSE)
            IN r.raised = "" /\ r.status = "Inclusion"

\* an encounter included with validate_timing on because its treatment
\* procedure is dated after the first operating room procedure
C29_Witness ==
    \E k \in Recorded :
        /\ validate_timing
        /\ detailed_results[k].PSI = "PSI_09"
        /\ detailed_results[k].Status = "Inclusion"
        /\ detailed_results[k].Rationale[1][2] = "Postop hemorrhage/hematoma with treatment"
        /\ StatusOf(RowOf(k), "PSI_09", FALSE) = "Inclusion"

\* the evaluation returned at a gate: the gate's line is the last one of
\* the rationale (every early return appends its line and returns)
early_return(r) ==
    r.Rationale # <<>> /\ r.Rationale[Len(r.Rationale)][1] \in ExclusionPrefixes

\* C30: a result returned at a common, population or exclusion gate has
\* status Exclusion, exactly one rationale line and empty details, so
\* details are present only when no gate returned; and every result has a
\* rationale that is not empty.
C30_EarlyExitFrame ==
    \A k \in Recorded :
        LET r == detailed_results[k]
        IN /\ r.Rationale # <<>>
           /\ early_return(r) =>
                 (r.Status = "Exclusion" /\ Len(r.Rationale) = 1 /\ r.Detail = NoInfo)
           /\ r.Detail # NoInfo => ~early_return(r)

\* a result returned at an exclusion gate of its PSI, after the common and
\* population gates let the encounter through
C30_Witness ==
    \E k \in Recorded :
        LET r == detailed_results[k]
        IN /\ early_return(r)
           /\ r.Rationale[1][1] = "Exclusion"
           /\ common_exclusions(RowOf(k), locals_of(RowOf(k), validate_timing)) = <<>>

=============================================================================
